---- MODULE Spec2Model ----
(***************************************************************************)
(* A model of the cgroups-rs Resource Manager: the cgroupfs backend        *)
(* (FsManager, src/src/manager/fs.rs) and the systemd backend              *)
(* (SystemdManager, src/src/manager/systemd.rs).                           *)
(*                                                                         *)
(* The manager code is translated handler by handler.  The controller      *)
(* gateway it calls (crate::fs: Cgroup, MemController, ...) and the kernel  *)
(* behind it are not part of the translated sources; they are modelled as  *)
(* the typed operations the specification describes (KernelWrite,          *)
(* SystemdCall).                                                           *)
(*                                                                         *)
(* Every handler leaves a trace of the calls it made in `log` (controller  *)
(* gateway calls, in order, each with its outcome) and `dbus` (D-Bus       *)
(* method calls), and its result in `ret`.  The caller takes the result in *)
(* the Return step, after which the next call can be made.                 *)
(***************************************************************************)
EXTENDS Integers, Sequences, FiniteSets, TLC

\* ------------------------------------------------------------------------
\* Bounds of the model
\* ------------------------------------------------------------------------

\* Process identifiers range over 1..MaxPid.
MaxPid == 2

\* The longest PIDs array a SystemdClient collects before a unit is started.
MaxPidsLen == 3

\* The most resource properties a SystemdClient holds when set() is called.
MaxSetProps == 1

\* The most characters of a cpu list a mask is made from.
MaxListLen == 5

\* The most digits of a number in a cpu list.
MaxDigits == 2

\* The most pieces (a name, a hyphen, a slash, the suffix) a slice name is
\* made of.
MaxPieces == 6

\* The largest of the small cpu shares values a conversion is applied to.
MaxShares == 40

\* The deepest cgroup path below the hierarchy root (root/x/y/z has depth 3).
MaxDepth == 3

\* ------------------------------------------------------------------------
\* Program constants
\* ------------------------------------------------------------------------

\* 512 MiB and 1 GiB, in bytes
MEMORY_512M == 536870912
MEMORY_1G == 1073741824

CPU_SHARES_V1_MAX == 262144
CPU_WEIGHT_V2_MAX == 10000

\* Minimum systemd versions of the cpu and cpuset properties.
CPU_SYSTEMD_VERSION == 242
CPUSET_SYSTEMD_VERSION == 244

\* The suffix of a slice unit name.
SLICE_SUFFIX == <<".", "s", "l", "i", "c", "e">>

\* The kernel's default cpu quota period, in microseconds.
DEFAULT_CPU_QUOTA_PERIOD == 100000

\* u64::MAX.  A u64 of 2^63 or more is written as the i64 with the same
\* bits, so that `x as u64` keeps x: u64::MAX is -1.
U64_MAX == -1

\* The value the kernel reports for an unlimited memory limit.  It is larger
\* than every limit the model writes.
KernelMax == (MEMORY_1G - 1) + MEMORY_1G

\* ------------------------------------------------------------------------
\* Option<T>: <<>> is None, <<v>> is Some(v)
\* ------------------------------------------------------------------------

None == <<>>

Some(v) == <<v>>

is_none(o) == o = <<>>

is_some(o) == o # <<>>

unwrap_or(o, d) == IF o = <<>> THEN d ELSE o[1]

\* ------------------------------------------------------------------------
\* State
\* ------------------------------------------------------------------------

VARIABLES
    backend,    \* "fs": the manager is an FsManager; "systemd": a SystemdManager
    v2,         \* the host runs the unified hierarchy (Cgroup::v2)
    ctrls,      \* the controllers discovered for the cgroup (Cgroup subsystems)
    usage,      \* memory usage of the cgroup as the kernel reports it
    version,    \* the version of the running systemd
    input,      \* the argument a conversion function is applied to: [fn, arg]
    draining,   \* a destroy() that has read the member list and has not yet
                \* removed the directory: [ids: the members it has still to
                \* move, joined: the pids that became members since it read
                \* the list]
    exists,     \* the cgroup directory exists
    members,    \* pids that are members of the cgroup
    kmem,       \* kernel memory limits of the cgroup: [limit, memsw]
    kcpus,      \* cpuset.cpus of the cgroup: a set of cpus
    anc,        \* cpuset.cpus of the cgroups between the root and the cgroup,
                \* from just below the root to the parent of the cgroup
    frozen,     \* kernel freezer state of the cgroup
    unit,       \* systemd's state of the transient unit: "absent", "active",
                \* or "failed" (stopped and still loaded)
    props,      \* SystemdClient::props: the unit's properties, [name, value]
    pc,         \* "ready": a call can be made; "returned": a call has returned;
                \* "draining": destroy() is between reading the member list
                \* and removing the directory
    call,       \* the call that has returned: [name, arg]
    ret,        \* its result: "Ok" or the error
    out,        \* the value it returned (pids(): the set of pids)
    log,        \* the controller gateway calls it made, in order
    dbus        \* the D-Bus method calls it made, in order

vars == <<backend, v2, ctrls, usage, version, input, draining, exists, members, kmem, kcpus, anc,
          frozen, unit, props, pc, call, ret, out, log, dbus>>

\* What a manager call that runs undisturbed leaves as it is.
env == <<backend, v2, ctrls, usage, version, input, draining>>

Pids == 1..MaxPid

Controllers == {"cpuset", "cpu", "cpuacct", "memory", "pids", "blkio", "hugetlb",
                "net_cls", "net_prio", "devices", "freezer"}

\* ------------------------------------------------------------------------
\* The kernel and the controller gateway, as the manager sees them
\* ------------------------------------------------------------------------

\* A call context: the environment one manager call runs in.  `fail` names
\* the gateway operation the kernel rejects during this call for a reason of
\* its own (I/O error, EBUSY, ...), "none" when there is no such rejection;
\* `stuck` are the member pids the kernel refuses to move out of the cgroup.
Context(f, s) ==
    [v2 |-> v2, ctrls |-> ctrls, usage |-> usage, fail |-> f, stuck |-> s]

\* A call context in which the kernel rejects the operation f on the cgroup
\* `at` levels below the root.
ContextAt(f, l) ==
    [v2 |-> v2, ctrls |-> ctrls, usage |-> usage, fail |-> f, stuck |-> {}, at |-> l]

\* The state of a handler while it runs: the kernel's state of the cgroup
\* (exists, members, frozen, k: the memory limits, cpus and anc: cpuset.cpus
\* of the cgroup and of the cgroups above it)
\* and systemd's state of the unit, the gateway calls (log) and D-Bus calls
\* (dbus) made so far, the error that ended the handler ("Ok" while none) and
\* the value it returns (out).
RunState ==
    [exists |-> exists, members |-> members, frozen |-> frozen, k |-> kmem,
     cpus |-> kcpus, anc |-> anc, unit |-> unit, props |-> props, log |-> <<>>, dbus |-> <<>>, err |-> "Ok", out |-> {}]

\* The cpus of the host.
AllCpus == {0, 1}

\* The cpu lists written to cpuset.cpus.
CpuLists == {"0", "1", "0-1", "0,1"}

\* The set of cpus the kernel reads from a cpu list.
parse_cpu_list(list) ==
    CASE list = "0" -> {0}
      [] list = "1" -> {1}
      [] list = "0-1" -> {0, 1}
      [] list = "0,1" -> {0, 1}
      [] OTHER -> {}

\* The number of path components of the cgroup below the hierarchy root.
Depth(rs) == Len(rs.anc) + 1

\* cpuset.cpus of the cgroup `level` components below the root: the root has
\* every cpu, the last level is the cgroup itself.
CpusAt(rs, level) ==
    IF level = 0 THEN AllCpus
    ELSE IF level = Depth(rs) THEN rs.cpus
    ELSE rs.anc[level]

\* What the kernel stores for a written limit: -1 means unlimited.
Stored(val) == IF val = -1 THEN KernelMax ELSE val

\* The kernel's answer to one gateway operation on the cgroup: res, and the
\* state st it leaves.
\*   "enoent": the cgroup directory does not exist;
\*   "error":  the kernel rejects the operation for a reason of its own;
\*   "rule":   cgroup v1 memory keeps limit <= memsw and rejects a write that
\*             would break it; cpuset.cpus takes only cpus that are in the
\*             parent's cpuset.cpus;
\*   "ebusy":  a cgroup that has members cannot be removed;
\*   "cgroup_mode": a thread cannot be added, the cgroup is not threaded
\*             (FsErrorKind::CgroupMode);
\*   "ok":     done.
KernelWrite(cx, rs, knob, val) ==
    IF knob = "create" THEN
        IF knob = cx.fail THEN [res |-> "error", st |-> rs]
        ELSE [res |-> "ok", st |-> [rs EXCEPT !.exists = TRUE]]
    ELSE IF ~rs.exists THEN [res |-> "enoent", st |-> rs]
    ELSE IF knob = "delete" THEN
        IF rs.members # {} THEN [res |-> "ebusy", st |-> rs]
        ELSE IF knob = cx.fail THEN [res |-> "error", st |-> rs]
        ELSE [res |-> "ok", st |-> [rs EXCEPT !.exists = FALSE, !.frozen = FALSE,
                                               !.cpus = {},
                                               !.k = [limit |-> KernelMax, memsw |-> KernelMax]]]
    ELSE IF knob \in {"remove_task", "remove_task_by_tgid"} THEN
        IF val \in cx.stuck THEN [res |-> "error", st |-> rs]
        ELSE [res |-> "ok", st |-> [rs EXCEPT !.members = @ \ {val}]]
    ELSE IF knob = cx.fail THEN [res |-> "error", st |-> rs]
    ELSE IF knob = "add_task" /\ cx.fail = "CgroupMode" THEN [res |-> "cgroup_mode", st |-> rs]
    ELSE IF knob \in {"add_task_by_tgid", "add_task"} THEN
        [res |-> "ok", st |-> [rs EXCEPT !.members = @ \cup {val}]]
    ELSE IF knob = "freeze" THEN [res |-> "ok", st |-> [rs EXCEPT !.frozen = TRUE]]
    ELSE IF knob = "thaw" THEN [res |-> "ok", st |-> [rs EXCEPT !.frozen = FALSE]]
    ELSE IF knob = "set_cpus" THEN
        IF ~(parse_cpu_list(val) \subseteq CpusAt(rs, Depth(rs) - 1))
        THEN [res |-> "rule", st |-> rs]
        ELSE [res |-> "ok", st |-> [rs EXCEPT !.cpus = parse_cpu_list(val)]]
    ELSE IF knob = "set_limit" THEN
        IF ~cx.v2 /\ Stored(val) > rs.k.memsw
        THEN [res |-> "rule", st |-> rs]
        ELSE [res |-> "ok", st |-> [rs EXCEPT !.k.limit = Stored(val)]]
    ELSE IF knob = "set_memswap_limit" THEN
        IF ~cx.v2 /\ Stored(val) < rs.k.limit
        THEN [res |-> "rule", st |-> rs]
        ELSE [res |-> "ok", st |-> [rs EXCEPT !.k.memsw = Stored(val)]]
    ELSE [res |-> "ok", st |-> rs]

\* One gateway call followed by `?`: nothing happens once an error was
\* returned; a rejected operation ends the handler with a Cgroupfs error.
Write(cx, rs, ctrl, knob, val) ==
    IF rs.err # "Ok" THEN rs
    ELSE LET w == KernelWrite(cx, rs, knob, val)
         IN [w.st EXCEPT
                !.log = Append(@, [ctrl |-> ctrl, knob |-> knob, val |-> val, res |-> w.res,
                                   level |-> Depth(rs)]),
                !.err = IF w.res = "ok" THEN "Ok" ELSE "Cgroupfs:WriteFailed"]

\* The kernel's answer to one gateway operation on the cgroup `level`
\* components below the root, through a handle made for that path:
\* Cgroup::new ("new") creates the directory when it is missing, set_cpus
\* follows the rule of cpuset.cpus.
KernelAt(cx, rs, level, knob, val) ==
    IF knob = cx.fail /\ level = cx.at THEN [res |-> "error", st |-> rs]
    ELSE IF knob = "new" THEN
        [res |-> "ok", st |-> IF level = Depth(rs) THEN [rs EXCEPT !.exists = TRUE] ELSE rs]
    ELSE IF ~(parse_cpu_list(val) \subseteq CpusAt(rs, level - 1)) THEN [res |-> "rule", st |-> rs]
    ELSE [res |-> "ok", st |-> IF level = Depth(rs)
                               THEN [rs EXCEPT !.cpus = parse_cpu_list(val)]
                               ELSE [rs EXCEPT !.anc[level] = parse_cpu_list(val)]]

\* One gateway call on the cgroup at `level`, followed by `?`.
WriteAt(cx, rs, level, ctrl, knob, val) ==
    IF rs.err # "Ok" THEN rs
    ELSE LET w == KernelAt(cx, rs, level, knob, val)
         IN [w.st EXCEPT
                !.log = Append(@, [ctrl |-> ctrl, knob |-> knob, val |-> val, res |-> w.res,
                                   level |-> level]),
                !.err = IF w.res = "ok" THEN "Ok" ELSE "Cgroupfs:WriteFailed"]

\* `return Err(e)` / `...?` on a value that is not a gateway operation.
Raise(rs, e) == IF rs.err # "Ok" THEN rs ELSE [rs EXCEPT !.err = e]

\* MemController::memory_stat(): a knob that cannot be read reads as 0.
memory_stat(cx, rs) ==
    [limit_in_bytes |-> IF rs.exists THEN rs.k.limit ELSE 0,
     usage_in_bytes |-> IF rs.exists THEN cx.usage ELSE 0]

\* FsManager::controller::<T>()
controller(cx, c) == IF c \in cx.ctrls THEN "Ok" ELSE "Cgroupfs:SubsystemsEmpty"

\* ------------------------------------------------------------------------
\* Conversion layer (src/src/manager/conv.rs)
\* ------------------------------------------------------------------------

\* a <= b for two u64 (a u64 of 2^63 or more is held as a negative number)
u64_le(a, b) == IF (a < 0) = (b < 0) THEN a <= b ELSE b < 0

\* (x * 9999) / 262142 for 0 <= x < 262142.  The product has no overflow in
\* u64; it is computed as (x * 99) * 101 with the quotient taken in two
\* steps, which gives the same quotient within 32 bits.
shares_quotient(x) ==
    LET y == x * 99
    IN  (y \div 262142) * 101 + ((y % 262142) * 101) \div 262142

\* cpu_shares_to_cgroup_v2 with the final `+ 1` left out.
cpu_shares_to_cgroup_v2_floor(shares) ==
    IF shares = 0 THEN 0
    ELSE IF u64_le(shares, 2) THEN 1
    ELSE IF u64_le(CPU_SHARES_V1_MAX, shares) THEN CPU_WEIGHT_V2_MAX
    ELSE shares_quotient(shares - 2)

cpu_shares_to_cgroup_v2(shares) ==
    IF shares = 0 THEN 0
    ELSE IF u64_le(shares, 2) THEN 1
    ELSE IF u64_le(CPU_SHARES_V1_MAX, shares) THEN CPU_WEIGHT_V2_MAX
    ELSE shares_quotient(shares - 2) + 1

\* memory_swap_to_cgroup_v2 without the sanity check memswap_limit < mem_limit.
memory_swap_to_cgroup_v2_unchecked(memswap_limit, mem_limit) ==
    IF mem_limit = -1 /\ memswap_limit = 0 THEN [err |-> "Ok", val |-> -1]
    ELSE IF memswap_limit = -1 \/ memswap_limit = 0 THEN [err |-> "Ok", val |-> memswap_limit]
    ELSE IF mem_limit = -1 THEN [err |-> "Ok", val |-> memswap_limit]
    ELSE IF mem_limit = 0 THEN [err |-> "InvalidLinuxResource", val |-> 0]
    ELSE IF mem_limit < 0 THEN [err |-> "InvalidLinuxResource", val |-> 0]
    ELSE [err |-> "Ok", val |-> memswap_limit - mem_limit]

\* Result<i64>: [err |-> "Ok", val |-> v] or [err |-> the error, val |-> 0]
memory_swap_to_cgroup_v2(memswap_limit, mem_limit) ==
    IF mem_limit = -1 /\ memswap_limit = 0 THEN [err |-> "Ok", val |-> -1]
    ELSE IF memswap_limit = -1 \/ memswap_limit = 0 THEN [err |-> "Ok", val |-> memswap_limit]
    ELSE IF mem_limit = -1 THEN [err |-> "Ok", val |-> memswap_limit]
    ELSE IF mem_limit = 0 THEN [err |-> "InvalidLinuxResource", val |-> 0]
    ELSE IF mem_limit < 0 THEN [err |-> "InvalidLinuxResource", val |-> 0]
    ELSE IF memswap_limit < mem_limit THEN [err |-> "InvalidLinuxResource", val |-> 0]
    ELSE [err |-> "Ok", val |-> memswap_limit - mem_limit]

\* ------------------------------------------------------------------------
\* Strings: a &str is the sequence of its characters
\* ------------------------------------------------------------------------

\* str::ends_with
ends_with(str, suffix) ==
    /\ Len(str) >= Len(suffix)
    /\ SubSeq(str, Len(str) - Len(suffix) + 1, Len(str)) = suffix

\* str::contains(char)
contains(str, ch) == \E i \in 1..Len(str) : str[i] = ch

\* str::trim_end_matches: the suffix is removed as often as it is found
RECURSIVE trim_end_matches(_, _)
trim_end_matches(str, suffix) ==
    IF suffix # <<>> /\ ends_with(str, suffix)
    THEN trim_end_matches(SubSeq(str, 1, Len(str) - Len(suffix)), suffix)
    ELSE str

\* str::split(char): the parts between the separators, empty parts included
RECURSIVE split(_, _)
split(str, sep) ==
    IF ~contains(str, sep) THEN <<str>>
    ELSE LET i == CHOOSE k \in 1..Len(str) :
                      str[k] = sep /\ \A j \in 1..(k - 1) : str[j] # sep
         IN  <<SubSeq(str, 1, i - 1)>> \o split(SubSeq(str, i + 1, Len(str)), sep)

\* ------------------------------------------------------------------------
\* Path algebra (src/src/systemd/utils.rs)
\* ------------------------------------------------------------------------

\* Result<String>
OkStr(str) == [err |-> "Ok", val |-> str]

InvalidArgument == [err |-> "InvalidArgument", val |-> <<>>]

\* The loop of expand_slice with each part alone as a component.
RECURSIVE expand_slice_loop_without_prefix(_, _, _, _)
expand_slice_loop_without_prefix(parts, i, slice_path, prefix) ==
    IF i > Len(parts) THEN OkStr(Tail(slice_path))
    ELSE IF parts[i] = <<>> THEN InvalidArgument
    ELSE expand_slice_loop_without_prefix(parts, i + 1,
                           slice_path \o <<"/">> \o parts[i] \o SLICE_SUFFIX, prefix)

\* The loop of expand_slice over the parts of the name, from part i on.
RECURSIVE expand_slice_loop(_, _, _, _)
expand_slice_loop(parts, i, slice_path, prefix) ==
    IF i > Len(parts) THEN
        \* slice_path.remove(0)
        OkStr(Tail(slice_path))
    ELSE IF parts[i] = <<>> THEN InvalidArgument
    ELSE expand_slice_loop(parts, i + 1,
                           slice_path \o <<"/">> \o prefix \o parts[i] \o SLICE_SUFFIX,
                           prefix \o parts[i] \o <<"-">>)

expand_slice(slice) ==
    IF ~ends_with(slice, SLICE_SUFFIX) \/ Len(slice) < Len(SLICE_SUFFIX) THEN InvalidArgument
    ELSE IF contains(slice, "/") THEN InvalidArgument
    ELSE LET name == trim_end_matches(slice, SLICE_SUFFIX)
         IN  IF name = <<"-">> THEN OkStr(<<>>)
             ELSE expand_slice_loop(split(name, "-"), 1, <<>>, <<>>)

\* The last component of a path: what follows its last `/`.
last_component(path) ==
    LET parts == split(path, "/") IN parts[Len(parts)]

\* ------------------------------------------------------------------------
\* FsManager: the per-resource setters
\*
\* A setter is straight-line code: a sequence of gateway calls, each followed
\* by `?`, and `return Err(e)` statements.  Each setter below gives the
\* sequence of statements the setter goes through for its argument, in
\* program order; Run executes the sequence up to the first statement that
\* fails.
\* ------------------------------------------------------------------------

\* `controller.knob(val)?`
Call(ctrl, knob, val) == <<[ctrl |-> ctrl, knob |-> knob, val |-> val]>>

\* `if cond { controller.knob(val)?; }`
CallIf(cond, ctrl, knob, val) == IF cond THEN Call(ctrl, knob, val) ELSE <<>>

\* `return Err(e)`
ReturnErr(e) == <<[ctrl |-> "", knob |-> "return_err", val |-> e]>>

\* The statements one after the other, until one fails.
RECURSIVE Run(_, _, _)
Run(cx, rs, statements) ==
    IF statements = <<>> \/ rs.err # "Ok" THEN rs
    ELSE LET s == Head(statements)
         IN Run(cx,
                IF s.knob = "return_err"
                THEN Raise(rs, s.val)
                ELSE Write(cx, rs, s.ctrl, s.knob, s.val),
                Tail(statements))

set_cpuset(cx, linux_cpu) ==
    IF controller(cx, "cpuset") # "Ok" THEN <<>>
    ELSE CallIf(is_some(linux_cpu.cpus), "cpuset", "set_cpus", unwrap_or(linux_cpu.cpus, ""))
         \o CallIf(is_some(linux_cpu.mems), "cpuset", "set_mems", unwrap_or(linux_cpu.mems, ""))

\* set_cpu that writes the shares of the document as they are also on
\* cgroup v2.
set_cpu_shares_unconverted(cx, linux_cpu) ==
    IF controller(cx, "cpu") # "Ok" THEN <<>>
    ELSE LET shares == unwrap_or(linux_cpu.shares, 0)
         IN CallIf(is_some(linux_cpu.shares) /\ shares # 0, "cpu", "set_shares", shares)
            \o CallIf(is_some(linux_cpu.quota),
                      "cpu", "set_cfs_quota", unwrap_or(linux_cpu.quota, 0))
            \o CallIf(is_some(linux_cpu.period),
                      "cpu", "set_cfs_period", unwrap_or(linux_cpu.period, 0))
            \o CallIf(is_some(linux_cpu.realtime_runtime),
                      "cpu", "set_rt_runtime", unwrap_or(linux_cpu.realtime_runtime, 0))
            \o CallIf(is_some(linux_cpu.realtime_period),
                      "cpu", "set_rt_period_us", unwrap_or(linux_cpu.realtime_period, 0))

set_cpu(cx, linux_cpu) ==
    IF controller(cx, "cpu") # "Ok" THEN <<>>
    ELSE LET shares == IF cx.v2
                       THEN cpu_shares_to_cgroup_v2(unwrap_or(linux_cpu.shares, 0))
                       ELSE unwrap_or(linux_cpu.shares, 0)
         IN CallIf(is_some(linux_cpu.shares) /\ shares # 0, "cpu", "set_shares", shares)
            \o CallIf(is_some(linux_cpu.quota),
                      "cpu", "set_cfs_quota", unwrap_or(linux_cpu.quota, 0))
            \o CallIf(is_some(linux_cpu.period),
                      "cpu", "set_cfs_period", unwrap_or(linux_cpu.period, 0))
            \o CallIf(is_some(linux_cpu.realtime_runtime),
                      "cpu", "set_rt_runtime", unwrap_or(linux_cpu.realtime_runtime, 0))
            \o CallIf(is_some(linux_cpu.realtime_period),
                      "cpu", "set_rt_period_us", unwrap_or(linux_cpu.realtime_period, 0))

\* set_mem_and_memswap_v1 that writes memsw first also when the current limit
\* equals the requested swap.
set_mem_and_memswap_v1_le(cx, rs, limit, swap_limit_in) ==
    IF controller(cx, "memory") # "Ok" THEN ReturnErr(controller(cx, "memory"))
    ELSE LET swap_limit == IF limit = -1 /\ swap_limit_in = 0 THEN -1 ELSE swap_limit_in
             limit_actual == memory_stat(cx, rs).limit_in_bytes
         IN IF limit # 0 /\ swap_limit # 0
               /\ (swap_limit = -1 \/ limit_actual <= swap_limit)
            THEN Call("memory", "set_memswap_limit", swap_limit)
                 \o Call("memory", "set_limit", limit)
            ELSE CallIf(limit # 0, "memory", "set_limit", limit)
                 \o CallIf(swap_limit # 0, "memory", "set_memswap_limit", swap_limit)

\* set_mem_and_memswap_v1 that always writes limit first.
set_mem_and_memswap_v1_limit_first(cx, rs, limit, swap_limit_in) ==
    IF controller(cx, "memory") # "Ok" THEN ReturnErr(controller(cx, "memory"))
    ELSE LET swap_limit == IF limit = -1 /\ swap_limit_in = 0 THEN -1 ELSE swap_limit_in
         IN CallIf(limit # 0, "memory", "set_limit", limit)
            \o CallIf(swap_limit # 0, "memory", "set_memswap_limit", swap_limit)

\* rs is the state in which the setter starts: memory.limit_in_bytes is read
\* before the first write.
set_mem_and_memswap_v1(cx, rs, limit, swap_limit_in) ==
    IF controller(cx, "memory") # "Ok" THEN ReturnErr(controller(cx, "memory"))
    ELSE LET swap_limit == IF limit = -1 /\ swap_limit_in = 0 THEN -1 ELSE swap_limit_in
             limit_actual == memory_stat(cx, rs).limit_in_bytes
         IN IF limit # 0 /\ swap_limit # 0
               /\ (swap_limit = -1 \/ limit_actual < swap_limit)
            THEN Call("memory", "set_memswap_limit", swap_limit)
                 \o Call("memory", "set_limit", limit)
            ELSE CallIf(limit # 0, "memory", "set_limit", limit)
                 \o CallIf(swap_limit # 0, "memory", "set_memswap_limit", swap_limit)

\* set_memory_v1 that writes the swappiness without checking its range.
set_memory_v1_any_swappiness(cx, rs, linux_memory) ==
    IF controller(cx, "memory") # "Ok" THEN <<>>
    ELSE LET mem_limit == unwrap_or(linux_memory.limit, 0)
             memswap_limit == unwrap_or(linux_memory.swap, 0)
         IN set_mem_and_memswap_v1(cx, rs, mem_limit, memswap_limit)
            \o CallIf(is_some(linux_memory.reservation),
                      "memory", "set_soft_limit", unwrap_or(linux_memory.reservation, 0))
            \o CallIf(unwrap_or(linux_memory.disable_oom_killer, FALSE),
                      "memory", "disable_oom_killer", 1)
            \o CallIf(is_some(linux_memory.swappiness),
                      "memory", "set_swappiness", unwrap_or(linux_memory.swappiness, 0))

set_memory_v1(cx, rs, linux_memory) ==
    IF controller(cx, "memory") # "Ok" THEN <<>>
    ELSE LET mem_limit == unwrap_or(linux_memory.limit, 0)
             memswap_limit == unwrap_or(linux_memory.swap, 0)
             swappiness == unwrap_or(linux_memory.swappiness, 0)
         IN set_mem_and_memswap_v1(cx, rs, mem_limit, memswap_limit)
            \o CallIf(is_some(linux_memory.reservation),
                      "memory", "set_soft_limit", unwrap_or(linux_memory.reservation, 0))
            \o CallIf(unwrap_or(linux_memory.disable_oom_killer, FALSE),
                      "memory", "disable_oom_killer", 1)
            \o (IF is_none(linux_memory.swappiness) THEN <<>>
                ELSE IF swappiness <= 100
                THEN Call("memory", "set_swappiness", swappiness)
                ELSE ReturnErr("InvalidLinuxResource"))

\* rs is the state in which the setter starts: the usage is read before the
\* first write.
set_memory_v2(cx, rs, linux_memory) ==
    IF controller(cx, "memory") # "Ok" THEN <<>>
    ELSE IF is_none(linux_memory.reservation) /\ is_none(linux_memory.limit)
            /\ is_none(linux_memory.swap)
    THEN <<>>
    ELSE LET mem_limit == unwrap_or(linux_memory.limit, 0)
             memswap_limit == unwrap_or(linux_memory.swap, 0)
             usage_actual == memory_stat(cx, rs).usage_in_bytes
             swap_limit == memory_swap_to_cgroup_v2(memswap_limit, mem_limit)
         IN IF mem_limit <= 0 /\ memswap_limit <= 0 THEN <<>>
            ELSE IF memswap_limit > 0 /\ memswap_limit <= usage_actual
            THEN ReturnErr("InvalidLinuxResource")
            ELSE IF mem_limit > 0 /\ mem_limit <= usage_actual
            THEN ReturnErr("InvalidLinuxResource")
            ELSE IF swap_limit.err # "Ok" THEN ReturnErr(swap_limit.err)
            ELSE Call("memory", "set_memswap_limit", swap_limit.val)
                 \o CallIf(mem_limit # 0, "memory", "set_limit", mem_limit)
                 \o CallIf(is_some(linux_memory.reservation),
                           "memory", "set_soft_limit", unwrap_or(linux_memory.reservation, 0))

set_memory(cx, rs, linux_memory) ==
    IF cx.v2 THEN set_memory_v2(cx, rs, linux_memory)
    ELSE set_memory_v1(cx, rs, linux_memory)

\* MaxValue: Max or Value(n)
MaxValueMax == [max |-> TRUE, value |-> 0]

MaxValueOf(n) == [max |-> FALSE, value |-> n]

\* set_pids that reports the missing controller instead of skipping.
set_pids_requiring_controller(cx, linux_pids) ==
    IF controller(cx, "pids") # "Ok" THEN ReturnErr(controller(cx, "pids"))
    ELSE LET value == IF linux_pids.limit > 0
                      THEN MaxValueOf(linux_pids.limit)
                      ELSE MaxValueMax
         IN Call("pids", "set_pid_max", value)

set_pids(cx, linux_pids) ==
    IF controller(cx, "pids") # "Ok" THEN <<>>
    ELSE LET value == IF linux_pids.limit > 0
                      THEN MaxValueOf(linux_pids.limit)
                      ELSE MaxValueMax
         IN Call("pids", "set_pid_max", value)

\* for device in devices.iter() { set_weight_for_device?; set_leaf_weight_for_device? }
RECURSIVE blkio_weight_devices(_)
blkio_weight_devices(devices) ==
    IF devices = <<>> THEN <<>>
    ELSE LET device == Head(devices)
         IN CallIf(is_some(device.weight), "blkio", "set_weight_for_device",
                   <<device.major, device.minor, unwrap_or(device.weight, 0)>>)
            \o CallIf(is_some(device.leaf_weight), "blkio", "set_leaf_weight_for_device",
                      <<device.major, device.minor, unwrap_or(device.leaf_weight, 0)>>)
            \o blkio_weight_devices(Tail(devices))

\* for device in devices.iter() { controller.throttle_..._for_device(major, minor, rate)? }
RECURSIVE blkio_throttle_devices(_, _)
blkio_throttle_devices(knob, devices) ==
    IF devices = <<>> THEN <<>>
    ELSE LET device == Head(devices)
         IN Call("blkio", knob, <<device.major, device.minor, device.rate>>)
            \o blkio_throttle_devices(knob, Tail(devices))

set_blkio(cx, blkio) ==
    IF controller(cx, "blkio") # "Ok" THEN <<>>
    ELSE CallIf(is_some(blkio.weight), "blkio", "set_weight", unwrap_or(blkio.weight, 0))
         \o CallIf(is_some(blkio.leaf_weight),
                   "blkio", "set_leaf_weight", unwrap_or(blkio.leaf_weight, 0))
         \o blkio_weight_devices(unwrap_or(blkio.weight_device, <<>>))
         \o blkio_throttle_devices("throttle_read_bps_for_device",
                                   unwrap_or(blkio.throttle_read_bps_device, <<>>))
         \o blkio_throttle_devices("throttle_write_bps_for_device",
                                   unwrap_or(blkio.throttle_write_bps_device, <<>>))
         \o blkio_throttle_devices("throttle_read_iops_for_device",
                                   unwrap_or(blkio.throttle_read_iops_device, <<>>))
         \o blkio_throttle_devices("throttle_write_iops_for_device",
                                   unwrap_or(blkio.throttle_write_iops_device, <<>>))

\* The page sizes the host supports (HugeTlbController.sizes).
HostHugepageSizes == {"2MB"}

\* HugeTlbController::size_supported
size_supported(hugetlb_size) == \E s \in HostHugepageSizes : s = hugetlb_size

\* for limit in hugepage_limits.iter() { if !size_supported { continue; } set_limit_in_bytes? }
RECURSIVE set_hugepages_loop(_)
set_hugepages_loop(hugepage_limits) ==
    IF hugepage_limits = <<>> THEN <<>>
    ELSE LET limit == Head(hugepage_limits)
         IN CallIf(size_supported(limit.page_size), "hugetlb", "set_limit_in_bytes",
                   <<limit.page_size, limit.limit>>)
            \o set_hugepages_loop(Tail(hugepage_limits))

set_hugepages(cx, hugepage_limits) ==
    IF controller(cx, "hugetlb") # "Ok" THEN <<>>
    ELSE set_hugepages_loop(hugepage_limits)

\* for priority in priorities.iter() { controller.set_if_prio(eif, prio)? }
RECURSIVE set_if_prios(_)
set_if_prios(priorities) ==
    IF priorities = <<>> THEN <<>>
    ELSE LET priority == Head(priorities)
         IN Call("net_prio", "set_if_prio", <<priority.name, priority.priority>>)
            \o set_if_prios(Tail(priorities))

set_network(cx, network) ==
    CallIf(is_some(network.class_id) /\ controller(cx, "net_cls") = "Ok",
           "net_cls", "set_class", unwrap_or(network.class_id, 0))
    \o (IF is_some(network.priorities) /\ controller(cx, "net_prio") = "Ok"
        THEN set_if_prios(unwrap_or(network.priorities, <<>>))
        ELSE <<>>)

\* DeviceType::from_char: the type characters the gateway knows
DeviceTypeChars == {"a", "b", "c", "p"}

\* access.chars().filter_map(r -> Read, w -> Write, m -> MkNod, _ -> None)
DevicePerms(access) == SelectSeq(access, LAMBDA ch : ch \in {"r", "w", "m"})

\* for device in devices.iter() { from_char(typ).ok_or(InvalidLinuxResource)?;
\* allow_device? / deny_device? }
RECURSIVE set_devices_loop(_)
set_devices_loop(devices) ==
    IF devices = <<>> THEN <<>>
    ELSE LET device == Head(devices)
             perm == DevicePerms(unwrap_or(device.access, <<>>))
             major == unwrap_or(device.major, 0)
             minor == unwrap_or(device.minor, 0)
         IN (IF device.typ \notin DeviceTypeChars
             THEN ReturnErr("InvalidLinuxResource")
             ELSE IF device.allow
             THEN Call("devices", "allow_device", <<device.typ, major, minor, perm>>)
             ELSE Call("devices", "deny_device", <<device.typ, major, minor, perm>>))
            \o set_devices_loop(Tail(devices))

set_devices(cx, devices) ==
    IF controller(cx, "devices") # "Ok" THEN <<>>
    ELSE set_devices_loop(devices)

\* `if let Some(s) = section { self.set_x(s)?; }`
Setter(x, section) ==
    IF is_some(section) THEN <<[name |-> x, section |-> section[1]]>> ELSE <<>>

\* self.set_x(section) for the setter named x, called in the state rs.
call_setter(x, cx, rs, section) ==
    CASE x = "set_cpuset" -> set_cpuset(cx, section)
      [] x = "set_cpu" -> set_cpu(cx, section)
      [] x = "set_memory" -> set_memory(cx, rs, section)
      [] x = "set_pids" -> set_pids(cx, section)
      [] x = "set_blkio" -> set_blkio(cx, section)
      [] x = "set_hugepages" -> set_hugepages(cx, section)
      [] x = "set_network" -> set_network(cx, section)
      [] x = "set_devices" -> set_devices(cx, section)

\* The setters one after the other, each in the state the one before has
\* left, until one fails.
RECURSIVE RunSetters(_, _, _)
RunSetters(cx, rs, setters) ==
    IF setters = <<>> \/ rs.err # "Ok" THEN rs
    ELSE LET s == Head(setters)
         IN RunSetters(cx, Run(cx, rs, call_setter(s.name, cx, rs, s.section)), Tail(setters))

\* set that applies the pids section before the memory section.
set_pids_before_memory(cx, rs, resources) ==
    RunSetters(cx, rs,
               Setter("set_cpuset", resources.cpu)
               \o Setter("set_cpu", resources.cpu)
               \o Setter("set_pids", resources.pids)
               \o Setter("set_memory", resources.memory)
               \o Setter("set_blkio", resources.block_io)
               \o Setter("set_hugepages", resources.hugepage_limits)
               \o Setter("set_network", resources.network)
               \o Setter("set_devices", resources.devices))

\* FsManager::set
set(cx, rs, resources) ==
    RunSetters(cx, rs,
               Setter("set_cpuset", resources.cpu)
               \o Setter("set_cpu", resources.cpu)
               \o Setter("set_memory", resources.memory)
               \o Setter("set_pids", resources.pids)
               \o Setter("set_blkio", resources.block_io)
               \o Setter("set_hugepages", resources.hugepage_limits)
               \o Setter("set_network", resources.network)
               \o Setter("set_devices", resources.devices))

\* ------------------------------------------------------------------------
\* FsManager: lifecycle operations
\* ------------------------------------------------------------------------

FreezerStates == {"Thawed", "Freezing", "Frozen"}

\* The elements of a set of pids in increasing order (Cgroup::tasks() and
\* Cgroup::procs() return the ids sorted).
RECURSIVE SortedSeq(_)
SortedSeq(S) ==
    IF S = {} THEN <<>>
    ELSE LET m == CHOOSE x \in S : \A y \in S : x <= y
         IN <<m>> \o SortedSeq(S \ {m})

\* A gateway call whose error is kept, as under `?`.
WriteKeepingError(cx, rs, ctrl, knob, val) == Write(cx, rs, ctrl, knob, val)

\* `let _ = gateway call`: the call is made and its error is dropped.
WriteIgnoringError(cx, rs, ctrl, knob, val) ==
    [Write(cx, rs, ctrl, knob, val) EXCEPT !.err = rs.err]

\* FsManager::exists
fs_exists(rs) == rs.exists

\* create_cgroups that creates the directory whether it exists or not.
create_cgroups_always(cx, rs) == Write(cx, rs, "cgroup", "create", 0)

\* FsManager::create_cgroups
create_cgroups(cx, rs) ==
    IF fs_exists(rs) THEN rs
    ELSE Write(cx, rs, "cgroup", "create", 0)

\* add_proc that creates the cgroup and attaches nothing.
add_proc_without_attach(cx, rs, tgid) == create_cgroups(cx, rs)

\* FsManager::add_proc
add_proc(cx, rs, tgid) ==
    LET r1 == create_cgroups(cx, rs)
    IN Write(cx, r1, "cgroup", "add_task_by_tgid", tgid)

\* FsManager::pids: the task list of the memory controller
pids(cx, rs) ==
    IF controller(cx, "memory") # "Ok" THEN Raise(rs, controller(cx, "memory"))
    ELSE [rs EXCEPT !.out = IF rs.exists THEN rs.members ELSE {}]

\* freeze that takes Freezing for Frozen.
freeze_freezing_as_frozen(cx, rs, state) ==
    IF controller(cx, "freezer") # "Ok" THEN Raise(rs, controller(cx, "freezer"))
    ELSE IF state = "Thawed" THEN Write(cx, rs, "freezer", "thaw", 0)
    ELSE Write(cx, rs, "freezer", "freeze", 0)

\* FsManager::freeze
freeze(cx, rs, state) ==
    IF controller(cx, "freezer") # "Ok" THEN Raise(rs, controller(cx, "freezer"))
    ELSE IF state = "Thawed" THEN Write(cx, rs, "freezer", "thaw", 0)
    ELSE IF state = "Frozen" THEN Write(cx, rs, "freezer", "freeze", 0)
    ELSE Raise(rs, "InvalidArgument")

\* for id in ids { let _ = self.cgroup.remove_task...(id); }
RECURSIVE drain(_, _, _, _)
drain(cx, rs, knob, ids) ==
    IF ids = <<>> THEN rs
    ELSE drain(cx, WriteIgnoringError(cx, rs, "cgroup", knob, Head(ids)), knob, Tail(ids))

\* destroy that moves the members out and leaves the directory.
destroy_without_delete(cx, rs) ==
    IF ~fs_exists(rs) THEN rs
    ELSE IF cx.v2
         THEN drain(cx, rs, "remove_task_by_tgid", SortedSeq(rs.members))
         ELSE drain(cx, rs, "remove_task", SortedSeq(rs.members))

\* FsManager::destroy
destroy(cx, rs) ==
    IF ~fs_exists(rs) THEN rs
    ELSE LET r1 == IF cx.v2
                   THEN drain(cx, rs, "remove_task_by_tgid", SortedSeq(rs.members))
                   ELSE drain(cx, rs, "remove_task", SortedSeq(rs.members))
         IN Write(cx, r1, "cgroup", "delete", 0)

\* FsManager::add_thread
add_thread(cx, rs, pid) ==
    LET r1 == create_cgroups(cx, rs)
        r2 == Write(cx, r1, "cgroup", "add_task", pid)
    IN  IF r1.err # "Ok" \/ r2.err = "Ok" THEN r2
        ELSE IF r2.log[Len(r2.log)].res = "cgroup_mode" /\ cx.v2
             THEN add_proc(cx, [r2 EXCEPT !.err = "Ok"], pid)
             ELSE r2

\* The ancestors without the path itself.
ancestors_skip_self(rs) == [i \in 1..(Depth(rs) - 1) |-> Depth(rs) - i]

\* The stack in which the cgroup just below the root was pushed first.
ancestors_reversed(rs) == [i \in 1..Depth(rs) |-> i]

\* Path::ancestors() of the cgroup's path, cut at the root: the path itself,
\* its parent, ..., the cgroup just below the root (as levels).
ancestors(rs) == [i \in 1..Depth(rs) |-> Depth(rs) + 1 - i]

\* while let Some(p) = path_stack.pop() { Cgroup::new(..)?; f(controller)?; }
RECURSIVE topdown_pop(_, _, _, _)
topdown_pop(cx, rs, path_stack, cpus) ==
    IF path_stack = <<>> \/ rs.err # "Ok" THEN rs
    ELSE LET p == path_stack[Len(path_stack)]
         IN topdown_pop(cx,
                WriteAt(cx, WriteAt(cx, rs, p, "cgroup", "new", 0), p, "cpuset", "set_cpus", cpus),
                SubSeq(path_stack, 1, Len(path_stack) - 1), cpus)

\* set_controller_topdown that stops at the parent of the cgroup.
set_controller_topdown_parents_only(cx, rs, cpus) ==
    IF controller(cx, "cpuset") # "Ok" THEN Raise(rs, controller(cx, "cpuset"))
    ELSE topdown_pop(cx, rs, ancestors_skip_self(rs), cpus)

\* FsManager::set_controller_topdown with f = set_cpus(cpus)
set_controller_topdown(cx, rs, cpus) ==
    IF controller(cx, "cpuset") # "Ok" THEN Raise(rs, controller(cx, "cpuset"))
    ELSE topdown_pop(cx, rs, ancestors(rs), cpus)

\* FsManager::enable_cpus_topdown
enable_cpus_topdown(cx, rs, cpus) ==
    IF cpus = "" THEN rs
    ELSE set_controller_topdown(cx, rs, cpus)

\* The keys of FsManager::paths: the subsystems of /proc/self/cgroup.
paths(cx) == cx.ctrls

\* FsManager::cgroup_path
cgroup_path(cx, rs, subsystem) ==
    IF cx.v2 THEN [rs EXCEPT !.out = {"unified"}]
    ELSE IF is_none(subsystem) THEN Raise(rs, "Cgroupfs:InvalidPath")
    ELSE IF subsystem[1] \notin paths(cx) THEN Raise(rs, "Cgroupfs:SubsystemsEmpty")
    ELSE [rs EXCEPT !.out = {subsystem[1]}]

\* FsManager::stats: the memory section; a controller that is missing or
\* cannot be read gives the default value.
stats(cx, rs) ==
    [rs EXCEPT !.out = IF controller(cx, "memory") = "Ok"
                       THEN {memory_stat(cx, rs).usage_in_bytes}
                       ELSE {0}]

\* ------------------------------------------------------------------------
\* SystemdManager
\* ------------------------------------------------------------------------

\* A call context of the systemd backend.  `fail` is "proxy" when the
\* connection to systemd cannot be made, or the method systemd answers with
\* an error of its own; `outcome` says what becomes of a unit that is
\* stopped: "collected" (unloaded at once), "lingers" (still loaded, in the
\* failed state) or "vanishes" (still loaded when looked up, unloaded before
\* the next call).
SystemdContext(f, o) ==
    [v2 |-> v2, ctrls |-> ctrls, usage |-> usage, fail |-> f, stuck |-> {},
     version |-> version, outcome |-> o]

\* PropertiesBuilder::default_cgroup(slice, unit).build() for a scope.
default_cgroup ==
    <<[name |-> "CPUAccounting", value |-> <<TRUE>>],
      [name |-> "MemoryAccounting", value |-> <<TRUE>>],
      [name |-> "TasksAccounting", value |-> <<TRUE>>],
      [name |-> IF v2 THEN "IOAccounting" ELSE "BlockIOAccounting", value |-> <<TRUE>>],
      [name |-> "DefaultDependencies", value |-> <<FALSE>>],
      [name |-> "Description", value |-> <<"cgroups-rs transient unit">>],
      [name |-> "Slice", value |-> <<"system.slice">>],
      [name |-> "Delegate", value |-> <<TRUE>>]>>

\* The value of the property `name` in a property list: Some(value) or None.
RECURSIVE prop_value(_, _)
prop_value(properties, name) ==
    IF properties = <<>> THEN None
    ELSE IF Head(properties).name = name THEN Some(Head(properties).value)
    ELSE prop_value(Tail(properties), name)

\* The elements of an array value.
Elements(array) == {array[i] : i \in 1..Len(array)}

\* systemd's answer to one method call on org.freedesktop.systemd1.Manager.
SystemdCall(cx, rs, method, arg) ==
    IF method = cx.fail THEN [res |-> "error", st |-> rs]
    ELSE IF method \in {"FreezeUnit", "ThawUnit"} THEN
        IF rs.unit # "active" THEN [res |-> "NoSuchUnit", st |-> rs]
        ELSE [res |-> "ok", st |-> [rs EXCEPT !.frozen = (method = "FreezeUnit")]]
    ELSE IF method = "StartTransientUnit" THEN
        IF rs.unit # "absent" THEN [res |-> "UnitExists", st |-> rs]
        ELSE [res |-> "ok",
              st |-> [rs EXCEPT !.unit = "active",
                                !.members = Elements(unwrap_or(prop_value(arg, "PIDs"), <<>>)),
                                !.exists = IF cx.v2 THEN TRUE ELSE @]]
    ELSE IF method = "AttachProcessesToUnit" THEN
        IF rs.unit # "active" THEN [res |-> "NoSuchUnit", st |-> rs]
        ELSE [res |-> "ok", st |-> [rs EXCEPT !.members = @ \cup Elements(arg)]]
    ELSE IF method = "SetUnitProperties" THEN
        IF rs.unit = "absent" THEN [res |-> "NoSuchUnit", st |-> rs]
        ELSE [res |-> "ok", st |-> rs]
    ELSE IF method = "StopUnit" THEN
        IF rs.unit = "absent" THEN [res |-> "NoSuchUnit", st |-> rs]
        ELSE [res |-> "ok",
              st |-> [rs EXCEPT !.unit = IF cx.outcome = "collected" THEN "absent" ELSE "failed",
                                !.members = {}, !.exists = FALSE, !.frozen = FALSE,
                                !.cpus = {}, !.k = [limit |-> KernelMax, memsw |-> KernelMax]]]
    ELSE IF method = "ResetFailedUnit" THEN
        IF rs.unit = "absent" \/ cx.outcome = "vanishes"
        THEN [res |-> "NoSuchUnit", st |-> [rs EXCEPT !.unit = "absent"]]
        ELSE [res |-> "ok", st |-> [rs EXCEPT !.unit = IF @ = "failed" THEN "absent" ELSE @]]
    ELSE [res |-> "ok", st |-> rs]

\* `let sys_proxy = systemd_manager_proxy()?; sys_proxy.method(arg)?`
Dbus(cx, rs, method, arg) ==
    IF rs.err # "Ok" THEN rs
    ELSE IF cx.fail = "proxy" THEN Raise(rs, "SystemdDbus")
    ELSE LET w == SystemdCall(cx, rs, method, arg)
         IN [w.st EXCEPT
                !.dbus = Append(@, [method |-> method, arg |-> arg, res |-> w.res]),
                !.err = IF w.res = "ok" THEN "Ok" ELSE "SystemdDbus"]

\* SystemdClient::freeze
client_freeze(cx, rs) == Dbus(cx, rs, "FreezeUnit", 0)

\* SystemdClient::thaw
client_thaw(cx, rs) == Dbus(cx, rs, "ThawUnit", 0)

\* SystemdManager::freeze
systemd_freeze(cx, rs, state) ==
    IF state = "Thawed" THEN client_thaw(cx, rs)
    ELSE IF state = "Frozen" THEN client_freeze(cx, rs)
    ELSE Raise(rs, "InvalidArgument")

\* SystemdClient::exists: false also when systemd cannot be reached.
client_exists(cx, rs) == cx.fail \notin {"proxy", "GetUnit"} /\ rs.unit # "absent"

\* The index of the first property `name` of a property list, 0 if there
\* is none (iter().find / the first match of a loop over the list).
find(properties, name) ==
    IF \E i \in 1..Len(properties) : properties[i].name = name
    THEN CHOOSE i \in 1..Len(properties) :
             /\ properties[i].name = name
             /\ \A j \in 1..(i - 1) : properties[j].name # name
    ELSE 0

\* set_pid_prop that adds a PIDs property for every pid.
set_pid_prop_always_push(cx, rs, pid) ==
    IF client_exists(cx, rs) THEN rs
    ELSE [rs EXCEPT !.props = Append(@, [name |-> "PIDs", value |-> <<pid>>])]

\* SystemdClient::set_pid_prop (the PIDs property is an ArrayU32)
set_pid_prop(cx, rs, pid) ==
    IF client_exists(cx, rs) THEN rs
    ELSE IF find(rs.props, "PIDs") # 0
         THEN [rs EXCEPT !.props[find(rs.props, "PIDs")].value = Append(@, pid)]
         ELSE [rs EXCEPT !.props = Append(@, [name |-> "PIDs", value |-> <<pid>>])]

\* SystemdClient::start
client_start(cx, rs) ==
    IF is_none(prop_value(rs.props, "PIDs")) THEN Raise(rs, "InvalidProperties")
    ELSE Dbus(cx, rs, "StartTransientUnit", rs.props)

\* SystemdClient::add_process
add_process(cx, rs, pid) == Dbus(cx, rs, "AttachProcessesToUnit", <<pid>>)

\* ignore_no_such_unit that swallows nothing.
ignore_no_such_unit_never(res) == res

\* ignore_no_such_unit: the answer NoSuchUnit counts as success.
ignore_no_such_unit(res) == IF res = "NoSuchUnit" THEN "ok" ELSE res

\* `let ret = sys_proxy.method(..); ignore_no_such_unit(ret)?`
DbusIgnoringNoSuchUnit(cx, rs, method) ==
    IF rs.err # "Ok" THEN rs
    ELSE LET w == SystemdCall(cx, rs, method, 0)
         IN [w.st EXCEPT
                !.dbus = Append(@, [method |-> method, arg |-> 0, res |-> w.res]),
                !.err = IF ignore_no_such_unit(w.res) = "ok" THEN "Ok" ELSE "SystemdDbus"]

\* SystemdClient::stop
client_stop(cx, rs) ==
    IF cx.fail = "proxy" THEN Raise(rs, "SystemdDbus")
    ELSE LET r1 == DbusIgnoringNoSuchUnit(cx, rs, "StopUnit")
         IN IF r1.err = "Ok" /\ client_exists(cx, r1)
            THEN DbusIgnoringNoSuchUnit(cx, r1, "ResetFailedUnit")
            ELSE r1

\* `for new in properties` with every property appended.
merge_props_appended(existing, properties) == existing \o properties

\* The body of `for new in properties`: the value of the first property of
\* that name is replaced; when there is none the property is appended.
merge_prop(existing, new) ==
    IF find(existing, new.name) # 0
    THEN [existing EXCEPT ![find(existing, new.name)].value = new.value]
    ELSE Append(existing, new)

\* `for new in properties`, one property after the other on the list the
\* property before it left.
RECURSIVE merge_props(_, _)
merge_props(existing, properties) ==
    IF properties = <<>> THEN existing
    ELSE merge_props(merge_prop(existing, Head(properties)), Tail(properties))

\* set_properties that calls SetUnitProperties whether the unit exists or
\* not.
set_properties_unit_unchecked(cx, rs, properties) ==
    Dbus(cx, [rs EXCEPT !.props = merge_props(@, properties)], "SetUnitProperties", properties)

\* SystemdClient::set_properties
set_properties(cx, rs, properties) ==
    LET r1 == [rs EXCEPT !.props = merge_props(@, properties)]
    IN IF ~client_exists(cx, r1) THEN r1
       ELSE Dbus(cx, r1, "SetUnitProperties", properties)

\* One property, as the list a translator adds to the properties.
Property(name, value) == <<[name |-> name, value |-> value]>>

\* `return Err(e)` of a translator.
Err(e) == <<[name |-> "return_err", value |-> e]>>

\* `x as u64`: the same bits.
as_u64(x) == x

\* The byte with bit i set for every i of S.
RECURSIVE Mask(_)
Mask(S) ==
    IF S = {} THEN 0
    ELSE LET i == CHOOSE x \in S : TRUE
         IN 2^i + Mask(S \ {i})

\* The value of a decimal digit, -1 for another character.
Digit(ch) ==
    CASE ch = "0" -> 0 [] ch = "1" -> 1 [] ch = "2" -> 2 [] ch = "3" -> 3
      [] ch = "4" -> 4 [] ch = "5" -> 5 [] ch = "6" -> 6 [] ch = "7" -> 7
      [] ch = "8" -> 8 [] ch = "9" -> 9 [] OTHER -> -1

\* The number a string of digits stands for.
RECURSIVE digits_value(_)
digits_value(digits) ==
    IF digits = <<>> THEN 0
    ELSE digits_value(SubSeq(digits, 1, Len(digits) - 1)) * 10 + Digit(digits[Len(digits)])

\* str::parse::<usize> that reads an empty string as 0.
parse_usize_empty_as_zero(str) ==
    LET digits == IF str # <<>> /\ str[1] = "+" THEN Tail(str) ELSE str
    IN  IF \E i \in 1..Len(digits) : Digit(digits[i]) < 0
        THEN InvalidArgument
        ELSE [err |-> "Ok", val |-> digits_value(digits)]

\* str::parse::<usize>().map_err(|_| Error::InvalidArgument): one or more
\* decimal digits, after an optional `+`.
parse_usize(str) ==
    LET digits == IF str # <<>> /\ str[1] = "+" THEN Tail(str) ELSE str
    IN  IF digits = <<>> \/ \E i \in 1..Len(digits) : Digit(digits[i]) < 0
        THEN InvalidArgument
        ELSE [err |-> "Ok", val |-> digits_value(digits)]

BYTE_IN_BITS == 8

\* The position of index `index` in the bit vector: the bits of a byte
\* in the order of the indices.
local_idx_in_order(index) == index

\* The position of index `index` in the bit vector: the bits of a byte are
\* stored from the most significant one.
local_idx(index) ==
    (index \div BYTE_IN_BITS) * BYTE_IN_BITS + 7 - (index % BYTE_IN_BITS)

\* BitVec::from_elem(8, false): a bit vector is its length and the positions
\* that are set.
BitVecOfByte == [len |-> BYTE_IN_BITS, bits |-> {}]

\* while index >= bit_vec.len() { bit_vec.grow(BYTE_IN_BITS, false) }
grow_to(bit_vec, index) ==
    IF index >= bit_vec.len
    THEN [bit_vec EXCEPT !.len = (index \div BYTE_IN_BITS + 1) * BYTE_IN_BITS]
    ELSE bit_vec

\* BitVec::to_bytes: position 0 is the most significant bit of byte 0.
to_bytes(bit_vec) ==
    [k \in 1..(bit_vec.len \div BYTE_IN_BITS) |->
        Mask({7 - p : p \in {q \in 0..7 : (k - 1) * BYTE_IN_BITS + q \in bit_vec.bits}})]

\* Vec::reverse
reverse(vec) == [k \in 1..Len(vec) |-> vec[Len(vec) + 1 - k]]

\* The loop of convert_list_to_mask over the parts of the list, from part i on.
RECURSIVE mask_loop(_, _, _)
mask_loop(parts, i, bit_vec) ==
    IF i > Len(parts) THEN [err |-> "Ok", val |-> bit_vec]
    ELSE
        LET range == split(parts[i], "-")
            left == parse_usize(range[1])
            right == parse_usize(range[2])
        IN  IF Len(range) = 1 THEN
                IF left.err # "Ok" THEN InvalidArgument
                ELSE mask_loop(parts, i + 1,
                         [grow_to(bit_vec, left.val) EXCEPT
                             !.bits = @ \cup {local_idx(left.val)}])
            ELSE IF Len(range) = 2 THEN
                IF left.err # "Ok" THEN InvalidArgument
                ELSE IF right.err # "Ok" THEN InvalidArgument
                ELSE mask_loop(parts, i + 1,
                         [grow_to(bit_vec, right.val) EXCEPT
                             !.bits = @ \cup {local_idx(index) : index \in left.val..right.val}])
            ELSE InvalidArgument

\* systemd::cpuset::convert_list_to_mask: Result<Vec<u8>>
convert_list_to_mask(list) ==
    LET filled == mask_loop(split(list, ","), 1, BitVecOfByte)
    IN  IF filled.err # "Ok" THEN InvalidArgument
        ELSE [err |-> "Ok", val |-> reverse(to_bytes(filled.val))]

\* The characters of the cpu lists the manager is given.
Chars(list) ==
    CASE list = "0" -> <<"0">>
      [] list = "1" -> <<"1">>
      [] list = "0-1" -> <<"0", "-", "1">>
      [] list = "0,1" -> <<"0", ",", "1">>
      [] OTHER -> <<>>

\* `(NAME, convert_list_to_mask(list)?)`
mask_property(name, mask) ==
    IF mask.err # "Ok" THEN Err(mask.err) ELSE Property(name, mask.val)

\* systemd::cpuset::cpus
cpuset_cpus(cpus) == mask_property("AllowedCPUs", convert_list_to_mask(Chars(cpus)))

\* systemd::cpuset::mems
cpuset_mems(mems) == mask_property("AllowedMemoryNodes", convert_list_to_mask(Chars(mems)))

\* systemd::cpu::shares
cpu_shares(shares, isV2) == Property(IF isV2 THEN "CPUWeight" ELSE "CPUShares", <<shares>>)

\* systemd::cpu::period
cpu_period(period, systemd_version) ==
    IF systemd_version < CPU_SYSTEMD_VERSION THEN Err("ObsoleteSystemd")
    ELSE Property("CPUQuotaPeriodUSec", <<period>>)

\* systemd::cpu::quota
cpu_quota(quota) == Property("CPUQuotaPerSecUSec", <<quota>>)

\* systemd::memory::limit
memory_limit(limit, isV2) ==
    Property(IF isV2 THEN "MemoryMax" ELSE "MemoryLimit", <<as_u64(limit)>>)

\* systemd::memory::low
memory_low(low, isV2) ==
    IF ~isV2 THEN Err("CgroupsV1NotSupported")
    ELSE Property("MemoryLow", <<as_u64(low)>>)

\* systemd::memory::swap
memory_swap(swap, isV2) ==
    IF ~isV2 THEN Err("CgroupsV1NotSupported")
    ELSE Property("MemorySwapMax", <<as_u64(swap)>>)

\* systemd::pids::max
pids_max(max) == Property("TasksMax", <<as_u64(max)>>)

\* ms_to_us
ms_to_us(ms) == ms * 1000

\* (quota as u64 * s_to_us(1)) / period.  The product is taken in two steps
\* of a thousand: with quota * 1000 = k * period + r the quotient is
\* 1000 * k + (1000 * r) / period, and no intermediate value leaves the
\* range of the checker's integers for quota and period up to 2,000,000.
quota_per_sec(quota, period) ==
    LET a == quota * 1000
    IN (a \div period) * 1000 + ((a % period) * 1000) \div period

\* SystemdManager::set_cpu: `quota_systemd` for a quota above 0
quota_systemd(quota, period) ==
    LET q == quota_per_sec(quota, period)
    IN IF q % ms_to_us(10) # 0 THEN (q \div ms_to_us(10) + 1) * ms_to_us(10) ELSE q

\* SystemdManager::set_cpuset.  The caller hands the systemd version to
\* cpuset::cpus and cpuset::mems, which take the list alone.
systemd_set_cpuset(cx, linux_cpu) ==
    (IF is_some(linux_cpu.cpus) THEN cpuset_cpus(linux_cpu.cpus[1]) ELSE <<>>)
    \o (IF is_some(linux_cpu.mems) THEN cpuset_mems(linux_cpu.mems[1]) ELSE <<>>)

\* SystemdManager::set_cpu
systemd_set_cpu(cx, linux_cpu) ==
    LET period == unwrap_or(linux_cpu.period, 0)
        quota == unwrap_or(linux_cpu.quota, 0)
    IN (IF is_some(linux_cpu.shares)
        THEN cpu_shares(IF cx.v2 THEN cpu_shares_to_cgroup_v2(linux_cpu.shares[1])
                        ELSE linux_cpu.shares[1], cx.v2)
        ELSE <<>>)
       \o (IF period # 0 THEN cpu_period(period, cx.version) ELSE <<>>)
       \o (IF period # 0 \/ quota # 0
           THEN cpu_quota(IF quota > 0
                          THEN quota_systemd(quota, IF period = 0
                                                    THEN DEFAULT_CPU_QUOTA_PERIOD
                                                    ELSE period)
                          ELSE U64_MAX)
           ELSE <<>>)

\* SystemdManager::set_memory
systemd_set_memory(cx, linux_memory) ==
    LET mem_limit == unwrap_or(linux_memory.limit, 0)
        reservation == unwrap_or(linux_memory.reservation, 0)
        memswap_limit == unwrap_or(linux_memory.swap, 0)
        swap == memory_swap_to_cgroup_v2(memswap_limit, mem_limit)
    IN (IF mem_limit # 0 THEN memory_limit(mem_limit, cx.v2) ELSE <<>>)
       \o (IF reservation # 0 /\ cx.v2 THEN memory_low(reservation, cx.v2) ELSE <<>>)
       \o (IF memswap_limit # 0 /\ cx.v2
           THEN IF swap.err # "Ok" THEN Err(swap.err) ELSE memory_swap(swap.val, cx.v2)
           ELSE <<>>)

\* SystemdManager::set_pids
systemd_set_pids(cx, linux_pids) ==
    IF linux_pids.limit = -1 \/ linux_pids.limit > 0 THEN pids_max(linux_pids.limit) ELSE <<>>

\* What the translators of SystemdManager::set go through for a document,
\* in program order: the properties they push and the errors they return.
translate(cx, resources) ==
    (IF is_some(resources.cpu)
     THEN systemd_set_cpuset(cx, resources.cpu[1]) \o systemd_set_cpu(cx, resources.cpu[1])
     ELSE <<>>)
    \o (IF is_some(resources.memory) THEN systemd_set_memory(cx, resources.memory[1]) ELSE <<>>)
    \o (IF is_some(resources.pids) THEN systemd_set_pids(cx, resources.pids[1]) ELSE <<>>)

\* The position of the first `return Err(e)`, 0 when there is none.
first_err(items) ==
    IF \E i \in 1..Len(items) : items[i].name = "return_err"
    THEN CHOOSE i \in 1..Len(items) :
            /\ items[i].name = "return_err"
            /\ \A j \in 1..(i - 1) : items[j].name # "return_err"
    ELSE 0

\* SystemdClient::systemd_version
systemd_version(cx, rs) ==
    IF cx.fail \in {"proxy", "Version"} THEN Raise(rs, "SystemdDbus") ELSE rs

\* SystemdManager::set
systemd_set(cx, rs, resources) ==
    LET r1 == systemd_version(cx, rs)
        items == translate(cx, resources)
    IN IF r1.err # "Ok" THEN r1
       ELSE IF first_err(items) # 0 THEN Raise(r1, items[first_err(items)].value)
       ELSE set_properties(cx, r1, items)

\* SystemdManager::add_proc
systemd_add_proc(cx, rs, pid) ==
    IF ~client_exists(cx, rs)
    THEN create_cgroups(cx, client_start(cx, set_pid_prop(cx, rs, pid)))
    ELSE add_process(cx, rs, pid)

\* SystemdManager::destroy
systemd_destroy(cx, rs) == client_stop(cx, rs)

\* ------------------------------------------------------------------------
\* Inputs: OCI LinuxResources documents
\* ------------------------------------------------------------------------

Sections == {"cpu", "memory", "pids", "block_io", "hugepage_limits", "network", "devices"}

CpuDefault ==
    [cpus |-> Some("0-1"), mems |-> Some("0"), shares |-> Some(1024),
     quota |-> Some(100000), period |-> Some(100000),
     realtime_runtime |-> None, realtime_period |-> None]

CpuVariants ==
    {CpuDefault,
     [CpuDefault EXCEPT !.cpus = None, !.mems = None, !.shares = Some(0),
                        !.realtime_runtime = Some(950000), !.realtime_period = Some(1000000)],
     [CpuDefault EXCEPT !.shares = Some(CPU_SHARES_V1_MAX), !.quota = Some(-1), !.period = None]}

MemoryDefault ==
    [limit |-> Some(MEMORY_512M), swap |-> Some(MEMORY_1G), reservation |-> Some(MEMORY_512M),
     disable_oom_killer |-> None, swappiness |-> None]

MemoryLimits == {None, Some(-1), Some(MEMORY_512M), Some(MEMORY_1G)}

MemoryVariants ==
    [limit : MemoryLimits, swap : MemoryLimits, reservation : {None, Some(MEMORY_512M)},
     disable_oom_killer : {None, Some(TRUE)}, swappiness : {None, Some(50), Some(101)}]

PidsDefault == [limit |-> 2]

PidsVariants == {PidsDefault, [limit |-> -1]}

BlkioDevice == [major |-> 8, minor |-> 0, weight |-> Some(400), leaf_weight |-> Some(200)]

BlkioThrottle == [major |-> 8, minor |-> 0, rate |-> 1000]

BlkioDefault ==
    [weight |-> Some(500), leaf_weight |-> Some(300),
     weight_device |-> Some(<<BlkioDevice>>),
     throttle_read_bps_device |-> Some(<<BlkioThrottle>>),
     throttle_write_bps_device |-> Some(<<BlkioThrottle>>),
     throttle_read_iops_device |-> Some(<<BlkioThrottle>>),
     throttle_write_iops_device |-> Some(<<BlkioThrottle>>)]

HugepagesDefault == <<[page_size |-> "1GB", limit |-> 1], [page_size |-> "2MB", limit |-> 4096]>>

NetworkDefault ==
    [class_id |-> Some(1), priorities |-> Some(<<[name |-> "eth0", priority |-> 1]>>)]

DeviceCharRw ==
    [typ |-> "c", allow |-> TRUE, major |-> Some(1), minor |-> Some(5),
     access |-> Some(<<"r", "w", "x">>)]

DeviceBlockDeny ==
    [typ |-> "b", allow |-> FALSE, major |-> None, minor |-> None, access |-> None]

DevicesDefault == <<DeviceCharRw, DeviceBlockDeny>>

DevicesVariants ==
    {DevicesDefault, <<DeviceCharRw, [DeviceBlockDeny EXCEPT !.typ = "u"], DeviceCharRw>>}

EmptyResources ==
    [cpu |-> None, memory |-> None, pids |-> None, block_io |-> None,
     hugepage_limits |-> None, network |-> None, devices |-> None]

\* The document with the sections S, each with its default content.
DefaultResources(S) ==
    [cpu |-> IF "cpu" \in S THEN Some(CpuDefault) ELSE None,
     memory |-> IF "memory" \in S THEN Some(MemoryDefault) ELSE None,
     pids |-> IF "pids" \in S THEN Some(PidsDefault) ELSE None,
     block_io |-> IF "block_io" \in S THEN Some(BlkioDefault) ELSE None,
     hugepage_limits |-> IF "hugepage_limits" \in S THEN Some(HugepagesDefault) ELSE None,
     network |-> IF "network" \in S THEN Some(NetworkDefault) ELSE None,
     devices |-> IF "devices" \in S THEN Some(DevicesDefault) ELSE None]

\* Documents for the lifecycle specification.
ResourcesLifecycle ==
    {EmptyResources, DefaultResources(Sections), DefaultResources({"memory"})}

\* Documents for the set() specification: every section alone, all but one,
\* all, and the variants of the single sections.
ResourcesSet ==
    {DefaultResources(S) : S \in {{}, Sections}
                                  \cup {{x} : x \in Sections}
                                  \cup {Sections \ {x} : x \in Sections}}
    \cup {[EmptyResources EXCEPT !.cpu = Some(c)] : c \in CpuVariants}
    \cup {[EmptyResources EXCEPT !.pids = Some(p)] : p \in PidsVariants}
    \cup {[DefaultResources({"network"}) EXCEPT !.devices = Some(d)] : d \in DevicesVariants}

\* Cpu sections for the systemd backend: (quota, period) pairs with and
\* without a remainder in the division and in the rounding, a cpu list and a
\* memory node list, shares.
QuotaPeriods ==
    {<<None, None>>, <<Some(0), Some(0)>>, <<Some(-1), None>>, <<Some(-1), Some(100000)>>,
     <<None, Some(100000)>>, <<Some(50000), None>>, <<Some(50000), Some(100000)>>,
     <<Some(12345), Some(100000)>>, <<Some(9901), Some(10001)>>, <<Some(1), Some(1000000)>>}

CpuQuotas ==
    {[CpuDefault EXCEPT !.cpus = None, !.mems = None, !.shares = None,
                        !.quota = qp[1], !.period = qp[2]] : qp \in QuotaPeriods}

CpuSystemd ==
    CpuQuotas
    \cup {CpuDefault,
          [CpuDefault EXCEPT !.shares = None, !.quota = None, !.period = None],
          [CpuDefault EXCEPT !.cpus = None, !.shares = None, !.quota = None, !.period = None],
          [CpuDefault EXCEPT !.cpus = None, !.mems = None, !.quota = None, !.period = None]}

\* Documents for the life of a SystemdManager.
ResourcesSystemd ==
    {EmptyResources, DefaultResources({"cpu", "memory", "pids"}), DefaultResources({"pids"})}

\* Documents for the property translation of the systemd backend.
ResourcesTranslated ==
    {EmptyResources, DefaultResources({"cpu", "memory", "pids"}),
     DefaultResources({"memory"}),
     [EmptyResources EXCEPT !.pids = Some([limit |-> -1])],
     [EmptyResources EXCEPT !.pids = Some([limit |-> 0])],
     [EmptyResources EXCEPT !.memory = Some([MemoryDefault EXCEPT !.swap = Some(1)])]}
    \cup {[EmptyResources EXCEPT !.cpu = Some(c)] : c \in CpuSystemd}

\* cpu shares: the small values up to MaxShares, values around 1024, around
\* the largest value whose product with 9999 is below 2^31, around
\* CPU_SHARES_V1_MAX, and u64 values up to u64::MAX.
SharesValues ==
    (0..MaxShares) \cup {100, 1023, 1024, 1025, 2048, 65536, 131072,
                         214770, 214771, 214772, 214799, 214800}
        \cup ((CPU_SHARES_V1_MAX - 3)..(CPU_SHARES_V1_MAX + 2))
        \cup {2147483646, 2147483647, U64_MAX - 1, U64_MAX}

\* memory and memory+swap limits of memory_swap_to_cgroup_v2
SwapValues == {-2, -1, 0, 1, 50, 100, 200, MEMORY_512M, MEMORY_1G, KernelMax}

ConvInputs ==
    {[fn |-> "cpu_shares_to_cgroup_v2", arg |-> <<s>>] : s \in SharesValues}
        \cup {[fn |-> "memory_swap_to_cgroup_v2", arg |-> <<memswap, mem>>] :
                 memswap \in SwapValues, mem \in SwapValues}

\* The pieces slice names are made of: two names, the separators and the
\* suffix.
SlicePieces ==
    {<<"a">>, <<"s", "l", "i", "c", "e">>, <<"-">>, <<"/">>, SLICE_SUFFIX}

\* The strings made of n pieces.
RECURSIVE Concatenations(_, _)
Concatenations(pieces, n) ==
    IF n = 0 THEN {<<>>}
    ELSE {str \o piece : str \in Concatenations(pieces, n - 1), piece \in pieces}

SliceNames == UNION {Concatenations(SlicePieces, n) : n \in 0..MaxPieces}

SliceInputs == {[fn |-> "expand_slice", arg |-> <<slice>>] : slice \in SliceNames}

\* The characters cpu lists are made of: digits, the separators and a
\* character that is not part of a number.
ListChars == {<<"0">>, <<"4">>, <<"9">>, <<",">>, <<"-">>, <<"x">>}

\* The lists of up to MaxListLen characters whose numbers have no more than
\* MaxDigits digits.
CpuListStrings ==
    {list \in UNION {Concatenations(ListChars, n) : n \in 0..MaxListLen} :
        \A i \in 1..(Len(list) - MaxDigits) :
            \E j \in i..(i + MaxDigits) : Digit(list[j]) < 0}

CpuListInputs ==
    {[fn |-> "convert_list_to_mask", arg |-> <<list>>] : list \in CpuListStrings}

\* The property lists a SystemdClient is given: one property, a name of
\* the default properties, a name twice in one list, a PIDs array.
ClientProperties ==
    {Property("Description", <<"kata-container1 description">>),
     Property("CPUWeight", <<100>>),
     Property("CPUWeight", <<100>>) \o Property("CPUWeight", <<200>>),
     Property("Description", <<"first">>) \o Property("MemoryMax", <<MEMORY_512M>>)
         \o Property("Description", <<"kata-container1 description">>),
     Property("PIDs", <<2>>)}

\* What systemd rejects during a set() call.
RejectedSystemd == {"none", "proxy", "Version", "SetUnitProperties"}

\* The versions of the running systemd.
SystemdVersions == {CPU_SYSTEMD_VERSION - 1, CPUSET_SYSTEMD_VERSION - 1, CPUSET_SYSTEMD_VERSION}

\* Documents for the memory specification: a memory section only.
ResourcesMemory == {[EmptyResources EXCEPT !.memory = Some(m)] : m \in MemoryVariants}

\* The gateway operations of the setters.
SetKnobs ==
    {"set_cpus", "set_mems", "set_shares", "set_cfs_quota", "set_cfs_period",
     "set_rt_runtime", "set_rt_period_us", "set_memswap_limit", "set_limit",
     "set_soft_limit", "disable_oom_killer", "set_swappiness", "set_pid_max",
     "set_weight", "set_leaf_weight", "set_weight_for_device",
     "set_leaf_weight_for_device", "throttle_read_bps_for_device",
     "throttle_write_bps_for_device", "throttle_read_iops_for_device",
     "throttle_write_iops_for_device", "set_limit_in_bytes", "set_class",
     "set_if_prio", "allow_device", "deny_device"}

MemoryKnobs ==
    {"set_memswap_limit", "set_limit", "set_soft_limit", "disable_oom_killer",
     "set_swappiness"}

\* What the kernel rejects during one set() call: the one gateway operation
\* named, or nothing ("none").
RejectedLifecycle == {"none", "set_limit", "set_pid_max"}

RejectedSet == SetKnobs \cup {"none"}

RejectedMemory == MemoryKnobs \cup {"none"}

\* ------------------------------------------------------------------------
\* Initial states
\* ------------------------------------------------------------------------

\* The controllers of the unified hierarchy; the freezer is always there.
V2Controllers == {"cpuset", "cpu", "memory", "pids", "blkio", "hugetlb", "freezer"}

\* The controller sets of a host: everything the hierarchy has, or one
\* controller missing (not mounted, disabled on the kernel command line).
HierarchyControllers(isV2) == IF isV2 THEN V2Controllers ELSE Controllers

ControllerSets(isV2) ==
    {HierarchyControllers(isV2)}
    \cup {HierarchyControllers(isV2) \ {c} :
            c \in HierarchyControllers(isV2) \ (IF isV2 THEN {"freezer"} ELSE {})}

UsageValues == {0, MEMORY_512M}

FreshKmem == [limit |-> KernelMax, memsw |-> KernelMax]

NoCall == [name |-> "none", arg |-> 0]

\* No destroy() is under way.
NoDrain == [ids |-> <<>>, joined |-> {}]

\* No conversion function is under examination.
NoInput == [fn |-> "none", arg |-> <<>>]

\* The state after FsManager::new / SystemdManager::new: no directory has
\* been created.  A SystemdManager may be constructed for a unit that is
\* already running (with a process in it).
InitManager(backends, memoryOnly) ==
    /\ backend \in backends
    /\ v2 \in BOOLEAN
    /\ ctrls \in IF memoryOnly
                 THEN {HierarchyControllers(v2), HierarchyControllers(v2) \ {"memory"}}
                 ELSE ControllerSets(v2)
    /\ usage \in UsageValues
    /\ unit \in IF backend = "systemd" THEN {"absent", "active"} ELSE {"absent"}
    /\ exists = (unit = "active")
    /\ members = IF unit = "active" THEN {1} ELSE {}
    /\ kmem = FreshKmem
    /\ kcpus = {}
    /\ props = default_cgroup
    /\ frozen = FALSE
    /\ draining = NoDrain
    /\ pc = "ready"
    /\ call = NoCall
    /\ ret = "Ok"
    /\ out = {}
    /\ log = <<>>
    /\ dbus = <<>>

\* A manager for a cgroup directly below the hierarchy root, on a host with
\* a systemd that knows every property.
InitWith(backends, memoryOnly) ==
    /\ InitManager(backends, memoryOnly)
    /\ anc = <<>>
    /\ version = CPUSET_SYSTEMD_VERSION
    /\ input = NoInput

\* The cpuset.cpus of a chain of n nested cgroups: a cgroup has no cpu that
\* its parent does not have.
RECURSIVE CpusetChains(_)
CpusetChains(n) ==
    IF n = 0 THEN {<<>>}
    ELSE {Append(ch, c) : ch \in CpusetChains(n - 1), c \in SUBSET AllCpus}

Nested(ch) == \A i \in 1..Len(ch) : ch[i] \subseteq (IF i = 1 THEN AllCpus ELSE ch[i - 1])

\* ------------------------------------------------------------------------
\* Actions: one per manager operation
\* ------------------------------------------------------------------------

\* The handler has run to its end state rs: the kernel keeps what it did and
\* the caller gets the result.
Finish(name, arg, rs) ==
    /\ exists' = rs.exists
    /\ members' = rs.members
    /\ frozen' = rs.frozen
    /\ kmem' = rs.k
    /\ kcpus' = rs.cpus
    /\ anc' = rs.anc
    /\ unit' = rs.unit
    /\ props' = rs.props
    /\ call' = [name |-> name, arg |-> arg]
    /\ ret' = rs.err
    /\ out' = rs.out
    /\ log' = rs.log
    /\ dbus' = rs.dbus
    /\ pc' = "returned"
    /\ UNCHANGED env

FsReady == pc = "ready" /\ backend = "fs"

SystemdReady == pc = "ready" /\ backend = "systemd"

CreateCgroups ==
    /\ FsReady
    /\ \E f \in {"none", "create"} :
         Finish("create_cgroups", 0, create_cgroups(Context(f, {}), RunState))

AddProc ==
    /\ FsReady
    /\ \E tgid \in Pids, f \in {"none", "create", "add_task_by_tgid"} :
         Finish("add_proc", tgid, add_proc(Context(f, {}), RunState, tgid))

AddThread ==
    /\ FsReady
    /\ \E pid \in Pids, f \in {"none", "create", "add_task", "CgroupMode"} :
         Finish("add_thread", pid, add_thread(Context(f, {}), RunState, pid))

CgroupPath ==
    /\ FsReady
    /\ \E subsystem \in {None, Some("memory"), Some("cpuset")} :
         Finish("cgroup_path", subsystem, cgroup_path(Context("none", {}), RunState, subsystem))

Stats ==
    /\ FsReady
    /\ Finish("stats", 0, stats(Context("none", {}), RunState))

GetPids ==
    /\ FsReady
    /\ Finish("pids", 0, pids(Context("none", {}), RunState))

Freeze ==
    /\ FsReady
    /\ \E state \in FreezerStates, f \in {"none", "freeze", "thaw"} :
         Finish("freeze", state, freeze(Context(f, {}), RunState, state))

Destroy ==
    /\ FsReady
    /\ \E f \in {"none", "delete"}, s \in SUBSET members :
         Finish("destroy", 0, destroy(Context(f, s), RunState))

\* set() with a document of D while the kernel rejects the operation f.
SetFrom(D, F) ==
    /\ FsReady
    /\ \E resources \in D, f \in F :
         Finish("set", resources, set(Context(f, {}), RunState, resources))

SetLifecycle == SetFrom(ResourcesLifecycle, RejectedLifecycle)

SetAny == SetFrom(ResourcesSet, RejectedSet)

SetMemory == SetFrom(ResourcesMemory, RejectedMemory)

SystemdFreeze ==
    /\ SystemdReady
    /\ \E state \in FreezerStates, f \in {"none", "proxy", "FreezeUnit", "ThawUnit"} :
         Finish("freeze", state, systemd_freeze(Context(f, {}), RunState, state))

\* set() with a cpu section that has a cpu list only.
SetCpus ==
    /\ FsReady
    /\ \E cpus \in CpuLists, f \in {"none", "set_cpus"} :
         LET resources == [EmptyResources EXCEPT !.cpu =
                              Some([CpuDefault EXCEPT !.cpus = Some(cpus), !.mems = None,
                                                      !.shares = None, !.quota = None,
                                                      !.period = None])]
         IN Finish("set", resources, set(Context(f, {}), RunState, resources))

EnableCpusTopdown ==
    /\ FsReady
    /\ \E cpus \in CpuLists \cup {""}, f \in {"none", "new", "set_cpus"}, l \in 1..MaxDepth :
         Finish("enable_cpus_topdown", cpus,
                enable_cpus_topdown(ContextAt(f, l), RunState, cpus))

\* The PIDs array of the client's properties.
PidsProp(properties) == unwrap_or(prop_value(properties, "PIDs"), <<>>)

SystemdAddProc ==
    /\ SystemdReady
    /\ Len(PidsProp(props)) < MaxPidsLen
    /\ \E pid \in Pids,
          f \in {"none", "proxy", "StartTransientUnit", "AttachProcessesToUnit", "create"} :
         Finish("add_proc", pid, systemd_add_proc(SystemdContext(f, "collected"), RunState, pid))

\* set() of the systemd backend with a document of D.
SystemdSetFrom(D) ==
    /\ SystemdReady
    /\ \E resources \in D, f \in RejectedSystemd :
         Finish("set", resources, systemd_set(SystemdContext(f, "collected"), RunState, resources))

SystemdSet == SystemdSetFrom(ResourcesSystemd)

\* set() on a manager that has not been given more than MaxSetProps
\* resource properties.
SystemdSetTranslated ==
    /\ Len(props) < Len(default_cgroup) + MaxSetProps
    /\ SystemdSetFrom(ResourcesTranslated)

SystemdDestroy ==
    /\ SystemdReady
    /\ \E f \in {"none", "proxy", "StopUnit", "ResetFailedUnit"},
          o \in {"collected", "lingers", "vanishes"} :
         Finish("destroy", 0, systemd_destroy(SystemdContext(f, o), RunState))

\* The operations of the SystemdClient.
ClientSetPidProp ==
    /\ SystemdReady
    /\ Len(PidsProp(props)) < MaxPidsLen
    /\ \E pid \in Pids, f \in {"none", "proxy"} :
         Finish("set_pid_prop", pid, set_pid_prop(SystemdContext(f, "collected"), RunState, pid))

ClientSetProperties ==
    /\ SystemdReady
    /\ \E properties \in ClientProperties, f \in {"none", "proxy", "SetUnitProperties"} :
         Finish("set_properties", properties,
                set_properties(SystemdContext(f, "collected"), RunState, properties))

ClientStart ==
    /\ SystemdReady
    /\ \E f \in {"none", "proxy", "StartTransientUnit"} :
         Finish("start", 0, client_start(SystemdContext(f, "collected"), RunState))

ClientStop ==
    /\ SystemdReady
    /\ \E f \in {"none", "StopUnit"}, o \in {"collected", "lingers"} :
         Finish("stop", 0, client_stop(SystemdContext(f, o), RunState))

\* destroy() in the steps another process can come between: the check of
\* exists() and the reading of the member list,
DestroyBegin ==
    /\ FsReady
    /\ IF ~fs_exists(RunState)
       THEN Finish("destroy", 0, RunState)
       ELSE /\ pc' = "draining"
            /\ draining' = [ids |-> SortedSeq(members), joined |-> {}]
            /\ UNCHANGED <<backend, v2, ctrls, usage, version, input, exists, members,
                           kmem, kcpus, anc, frozen, unit, props, call, ret, out, log, dbus>>

\* the move of one listed member (the kernel may refuse it; the error is
\* dropped),
DrainMove ==
    /\ pc = "draining"
    /\ draining.ids # <<>>
    /\ \E s \in SUBSET {Head(draining.ids)} :
         LET rs == WriteIgnoringError(Context("none", s),
                                      [RunState EXCEPT !.log = log, !.err = ret], "cgroup",
                                      IF v2 THEN "remove_task_by_tgid" ELSE "remove_task",
                                      Head(draining.ids))
         IN  /\ members' = rs.members
             /\ log' = rs.log
             /\ ret' = rs.err
    /\ draining' = [draining EXCEPT !.ids = Tail(@)]
    /\ UNCHANGED <<backend, v2, ctrls, usage, version, input, exists,
                   kmem, kcpus, anc, frozen, unit, props, pc, call, out, dbus>>

\* and the removal of the directory.
DestroyDelete ==
    /\ pc = "draining"
    /\ draining.ids = <<>>
    /\ \E f \in {"none", "delete"} :
         Finish("destroy", 0,
                Write(Context(f, {}), [RunState EXCEPT !.log = log, !.err = ret],
                      "cgroup", "delete", 0))

\* A process has become a member of the cgroup without this manager.
Joins(rs) ==
    /\ exists' = rs.exists
    /\ members' = rs.members
    /\ draining' = IF pc = "draining"
                   THEN [draining EXCEPT !.joined = @ \cup (rs.members \ members)]
                   ELSE draining
    /\ UNCHANGED <<backend, v2, ctrls, usage, version, input,
                   kmem, kcpus, anc, frozen, unit, props, pc, call, ret, out, log, dbus>>

\* A second FsManager for the same cgroup adds a process.
OtherAddProc ==
    /\ backend = "fs"
    /\ \E tgid \in Pids \ members :
         Joins(add_proc(Context("none", {}), RunState, tgid))

\* A member of the cgroup forks: the child is a member.
Fork ==
    /\ backend = "fs"
    /\ exists /\ members # {}
    /\ \E child \in Pids \ members :
         Joins([RunState EXCEPT !.members = @ \cup {child}])

\* A conversion function has been applied to the argument: the caller gets
\* the result [err, val]; nothing else changes.
AppliedAs(name, result) ==
    /\ pc = "ready"
    /\ call' = [name |-> name, arg |-> input.arg]
    /\ ret' = result.err
    /\ out' = result.val
    /\ pc' = "returned"
    /\ UNCHANGED <<env, exists, members, kmem, kcpus, anc, frozen, unit, props, log, dbus>>

Applied(result) == AppliedAs(input.fn, result)

CpuSharesToCgroupV2 ==
    /\ input.fn = "cpu_shares_to_cgroup_v2"
    /\ Applied([err |-> "Ok", val |-> cpu_shares_to_cgroup_v2(input.arg[1])])

MemorySwapToCgroupV2 ==
    /\ input.fn = "memory_swap_to_cgroup_v2"
    /\ Applied(memory_swap_to_cgroup_v2(input.arg[1], input.arg[2]))

ExpandSlice ==
    /\ input.fn = "expand_slice"
    /\ Applied(expand_slice(input.arg[1]))

\* expand_slice applied to a slice name and, if that succeeds, again to the
\* last component of the path it gave.
ExpandSliceLeaf ==
    /\ input.fn = "expand_slice"
    /\ LET first == expand_slice(input.arg[1])
       IN  /\ first.err = "Ok"
           /\ AppliedAs("expand_slice_leaf",
                        [err |-> "Ok",
                         val |-> [path |-> first.val,
                                  leaf |-> expand_slice(last_component(first.val))]])

ConvertListToMask ==
    /\ input.fn = "convert_list_to_mask"
    /\ Applied(convert_list_to_mask(input.arg[1]))

\* The caller takes the result of the call; the next call can be made.
Return ==
    /\ pc = "returned"
    /\ pc' = "ready"
    /\ call' = NoCall
    /\ ret' = "Ok"
    /\ out' = {}
    /\ log' = <<>>
    /\ dbus' = <<>>
    /\ UNCHANGED <<env, exists, members, kmem, kcpus, anc, frozen, unit, props>>

\* ------------------------------------------------------------------------
\* Specifications
\* ------------------------------------------------------------------------

\* The life of one manager: any sequence of its operations.
Init == InitWith({"fs", "systemd"}, FALSE)

Next ==
    \/ CreateCgroups
    \/ AddProc
    \/ AddThread
    \/ GetPids
    \/ Stats
    \/ CgroupPath
    \/ Freeze
    \/ Destroy
    \/ SetLifecycle
    \/ SystemdFreeze
    \/ Return

Spec == Init /\ [][Next]_vars

\* set() on the cgroupfs backend with documents of every shape.
InitSet == InitWith({"fs"}, FALSE)

NextSet ==
    \/ CreateCgroups
    \/ SetAny
    \/ Return

SpecSet == InitSet /\ [][NextSet]_vars

\* Topdown cpuset enablement for a cgroup one to MaxDepth levels below the
\* root, in a v1 or v2 hierarchy with or without the cpuset controller.
InitTopdown ==
    /\ InitManager({"fs"}, FALSE)
    /\ ctrls \in {HierarchyControllers(v2), HierarchyControllers(v2) \ {"cpuset"}}
    /\ usage = 0
    /\ version = CPUSET_SYSTEMD_VERSION
    /\ input = NoInput
    /\ anc \in {ch \in UNION {CpusetChains(n) : n \in 0..(MaxDepth - 1)} : Nested(ch)}

NextTopdown ==
    \/ CreateCgroups
    \/ SetCpus
    \/ EnableCpusTopdown
    \/ Destroy
    \/ Return

SpecTopdown == InitTopdown /\ [][NextTopdown]_vars

\* The life of a SystemdManager: any sequence of add_proc, set, freeze and
\* destroy, on a host with an old or a new systemd.
InitSystemd ==
    /\ InitManager({"systemd"}, FALSE)
    /\ ctrls = HierarchyControllers(v2)
    /\ usage = 0
    /\ anc = <<>>
    /\ version \in SystemdVersions
    /\ input = NoInput

NextSystemd ==
    \/ SystemdAddProc
    \/ SystemdSet
    \/ SystemdDestroy
    \/ SystemdFreeze
    \/ Return

SpecSystemd == InitSystemd /\ [][NextSystemd]_vars

\* The property translation of SystemdManager::set for units that exist
\* and units that do not, on a host with an old or a new systemd.
NextTranslated ==
    \/ SystemdSetTranslated
    \/ Return

SpecTranslated == InitSystemd /\ [][NextTranslated]_vars

\* A manager that is not being called, while a conversion function is
\* applied to one of the given inputs.
InitApplying(inputs) ==
    /\ InitManager({"fs"}, FALSE)
    /\ v2
    /\ ctrls = HierarchyControllers(v2)
    /\ usage = 0
    /\ anc = <<>>
    /\ version = CPUSET_SYSTEMD_VERSION
    /\ input \in inputs

\* The conversion layer: each function applied to one argument.
InitConv == InitApplying(ConvInputs)

NextConv ==
    \/ CpuSharesToCgroupV2
    \/ MemorySwapToCgroupV2
    \/ Return

SpecConv == InitConv /\ [][NextConv]_vars

\* Slice expansion: expand_slice applied to one slice name.
InitSlice == InitApplying(SliceInputs)

NextSlice ==
    \/ ExpandSlice
    \/ ExpandSliceLeaf
    \/ Return

SpecSlice == InitSlice /\ [][NextSlice]_vars

\* The cpuset bitmask: convert_list_to_mask applied to one list.
InitMask == InitApplying(CpuListInputs)

NextMask ==
    \/ ConvertListToMask
    \/ Return

SpecMask == InitMask /\ [][NextMask]_vars

\* destroy() of an FsManager while a second manager adds processes to the
\* cgroup and members fork.
InitDestroy == InitWith({"fs"}, FALSE) /\ usage = 0

NextDestroy ==
    \/ AddProc
    \/ DestroyBegin
    \/ DrainMove
    \/ DestroyDelete
    \/ OtherAddProc
    \/ Fork
    \/ Return

SpecDestroy == InitDestroy /\ [][NextDestroy]_vars

\* The life of a SystemdClient: any sequence of its operations.
NextClient ==
    \/ ClientSetPidProp
    \/ ClientSetProperties
    \/ ClientStart
    \/ ClientStop
    \/ Return

SpecClient == InitSystemd /\ [][NextClient]_vars

\* The memory setters of the cgroupfs backend with every memory section.
InitMemory == InitWith({"fs"}, TRUE)

NextMemory ==
    \/ CreateCgroups
    \/ SetMemory
    \/ Return

SpecMemory == InitMemory /\ [][NextMemory]_vars

\* ------------------------------------------------------------------------
\* Properties
\* ------------------------------------------------------------------------

\* The call `name` has returned.
Returned(name) == pc = "returned" /\ call.name = name

\* The call `name` of the cgroupfs backend has returned.
FsReturned(name) == Returned(name) /\ backend = "fs"

\* This step is the call `name`, from its start to its return.
Calls(name) == pc = "ready" /\ pc' = "returned" /\ call'.name = name

\* What pids() returns when it is called in the current state.
NextPids == pids(Context("none", {}), RunState)

\* The entries of a log that satisfy P, in order.
Entries(l, P(_)) == SelectSeq(l, P)

\* Some entry of the log l is a call of the gateway operation knob.
Called(l, knob) == \E i \in 1..Len(l) : l[i].knob = knob

\* C1 as stated: on the cgroupfs backend, whenever add_proc(pid) has returned
\* Ok, the next pids() call returns a list that contains pid.
C1_AddProcThenPids ==
    (FsReturned("add_proc") /\ ret = "Ok")
        => (NextPids.err = "Ok" /\ call.arg \in NextPids.out)

\* C1 amended: whenever add_proc(pid) has returned Ok and the memory
\* controller is available, the next pids() call returns Ok with a list that
\* contains pid; without the memory controller pids() fails with
\* SubsystemsEmpty.
C1_AddProcThenPidsWithMemory ==
    (FsReturned("add_proc") /\ ret = "Ok")
        => IF "memory" \in ctrls
           THEN NextPids.err = "Ok" /\ call.arg \in NextPids.out
           ELSE NextPids.err = "Cgroupfs:SubsystemsEmpty"

C1_Witness ==
    /\ FsReturned("add_proc") /\ ret = "Ok"
    /\ "memory" \in ctrls
    /\ Cardinality(members) = 2
    /\ call.arg \in NextPids.out

\* C2: destroy() on a cgroup that does not exist returns Ok and does nothing;
\* whenever destroy() returns Ok on an existing cgroup, afterwards the cgroup
\* does not exist and has no member.
C2_Destroy ==
    [][(Calls("destroy") /\ backend = "fs") =>
        IF ~exists
        THEN ret' = "Ok" /\ log' = <<>> /\ UNCHANGED <<exists, members, kmem, frozen>>
        ELSE ret' = "Ok" => (~exists' /\ members' = {} /\ NextPids'.out = {})]_vars

C2_Witness ==
    /\ FsReturned("destroy") /\ ret = "Ok"
    /\ ~exists /\ members = {}
    /\ Called(log, IF v2 THEN "remove_task_by_tgid" ELSE "remove_task")
    /\ Called(log, "delete")

\* C6 as stated: for every manager and every state, freeze(Freezing) fails
\* with InvalidArgument and performs no freezer write and no FreezeUnit or
\* ThawUnit call.
C6_FreezingInvalidArgument ==
    (Returned("freeze") /\ call.arg = "Freezing")
        => (ret = "InvalidArgument" /\ log = <<>> /\ dbus = <<>>)

\* C6 amended: freeze(Freezing) always fails without a freezer write and
\* without a D-Bus call; the error is InvalidArgument, except on the cgroupfs
\* backend without a freezer controller, where it is SubsystemsEmpty.  A
\* freeze(Thawed) that returns Ok has made exactly one thaw and leaves the
\* cgroup thawed, a freeze(Frozen) that returns Ok exactly one freeze and
\* leaves it frozen.
C6_Freeze ==
    Returned("freeze") =>
        LET op(name) ==
                IF backend = "fs"
                THEN dbus = <<>> /\ Len(log) = 1 /\ log[1].knob = name /\ log[1].res = "ok"
                ELSE log = <<>> /\ Len(dbus) = 1 /\ dbus[1].res = "ok"
                     /\ dbus[1].method = (IF name = "thaw" THEN "ThawUnit" ELSE "FreezeUnit")
        IN  /\ call.arg = "Freezing" =>
                /\ log = <<>> /\ dbus = <<>>
                /\ ret = IF backend = "fs" /\ "freezer" \notin ctrls
                         THEN "Cgroupfs:SubsystemsEmpty"
                         ELSE "InvalidArgument"
            /\ (call.arg = "Thawed" /\ ret = "Ok") => (op("thaw") /\ ~frozen)
            /\ (call.arg = "Frozen" /\ ret = "Ok") => (op("freeze") /\ frozen)

C6_Witness ==
    /\ Returned("freeze") /\ call.arg = "Freezing"
    /\ backend = "fs" /\ "freezer" \in ctrls /\ exists /\ frozen
    /\ ret = "InvalidArgument"

\* The position of the setter that drives a controller in the order of set().
SetterRank(c) ==
    CASE c = "cpuset" -> 1
      [] c = "cpu" -> 2
      [] c = "memory" -> 3
      [] c = "pids" -> 4
      [] c = "blkio" -> 5
      [] c = "hugetlb" -> 6
      [] c \in {"net_cls", "net_prio"} -> 7
      [] c = "devices" -> 8

\* The section of the document that the setter of a controller reads.
SectionOf(c) ==
    CASE c \in {"cpuset", "cpu"} -> "cpu"
      [] c = "memory" -> "memory"
      [] c = "pids" -> "pids"
      [] c = "blkio" -> "block_io"
      [] c = "hugetlb" -> "hugepage_limits"
      [] c \in {"net_cls", "net_prio"} -> "network"
      [] c = "devices" -> "devices"

SetterControllers ==
    {"cpuset", "cpu", "memory", "pids", "blkio", "hugetlb", "net_cls", "net_prio", "devices"}

\* The setters that have written something during the call.
RanSetters == {SetterRank(log[i].ctrl) : i \in 1..Len(log)}

\* The setters that have something to write for the document: its section is
\* present and its controller is available.
DueSetters(resources) ==
    {SetterRank(c) : c \in {x \in SetterControllers \cap ctrls :
                                is_some(resources[SectionOf(x)])}}

IsDefaultDocument(resources) == \E S \in SUBSET Sections : resources = DefaultResources(S)

\* C3: set() runs the setters in the order cpuset, cpu, memory, pids, blkio,
\* hugepages, network, devices, skipping absent sections; it stops at the
\* first failing setter and returns its error; the writes made before stay
\* applied and no later setter writes anything.
C3_SetOrder ==
    FsReturned("set") =>
        /\ \A i, j \in 1..Len(log) :
              i < j => SetterRank(log[i].ctrl) <= SetterRank(log[j].ctrl)
        /\ \A i \in 1..Len(log) : is_some(call.arg[SectionOf(log[i].ctrl)])
        /\ \A i \in 1..Len(log) :
              IF log[i].res = "ok"
              THEN /\ log[i].knob = "set_limit" => kmem.limit = Stored(log[i].val)
                   /\ (log[i].knob = "set_memswap_limit" /\ ~v2)
                          => kmem.memsw = Stored(log[i].val)
              ELSE i = Len(log) /\ ret = "Cgroupfs:WriteFailed"
        /\ RanSetters \subseteq DueSetters(call.arg)
        /\ IsDefaultDocument(call.arg) =>
              /\ \A r \in RanSetters, d \in DueSetters(call.arg) : d < r => d \in RanSetters
              /\ ret = "Ok" => RanSetters = DueSetters(call.arg)

C3_Witness ==
    /\ FsReturned("set") /\ call.arg = DefaultResources(Sections)
    /\ ~v2 /\ ctrls = Controllers /\ exists
    /\ ret = "Cgroupfs:WriteFailed"
    /\ log[Len(log)].knob = "set_weight"
    /\ RanSetters = 1..5
    /\ kmem.limit = MEMORY_512M

\* C10: a setter whose controller is not available writes nothing and reports
\* success, and set() goes on with the remaining setters: set() never fails
\* only because a controller is missing.
C10_MissingControllerSkipped ==
    FsReturned("set") =>
        /\ \A i \in 1..Len(log) : log[i].ctrl \in ctrls
        /\ ret \in {"Ok", "Cgroupfs:WriteFailed", "InvalidLinuxResource"}
        /\ ret = "Cgroupfs:WriteFailed" => (log # <<>> /\ log[Len(log)].res # "ok")
        /\ ret = "InvalidLinuxResource" =>
              \/ "memory" \in ctrls /\ is_some(call.arg.memory)
              \/ "devices" \in ctrls /\ is_some(call.arg.devices)
        /\ (/\ IsDefaultDocument(call.arg)
            /\ ret # "InvalidLinuxResource"
            /\ \A i \in 1..Len(log) : log[i].res = "ok")
              => /\ ret = "Ok"
                 /\ \A c \in SetterControllers \cap ctrls :
                       is_some(call.arg[SectionOf(c)]) => \E i \in 1..Len(log) : log[i].ctrl = c

C10_Witness ==
    /\ FsReturned("set") /\ call.arg = DefaultResources(Sections)
    /\ ~v2 /\ ctrls = Controllers \ {"memory"} /\ exists
    /\ ret = "Ok"
    /\ RanSetters = (1..8) \ {3}

\* The memory section of the document of the set() call that has returned.
MemoryArg == call.arg.memory[1]

\* set() with a memory section has returned and the memory controller is
\* available.
MemoryReturned ==
    FsReturned("set") /\ is_some(call.arg.memory) /\ "memory" \in ctrls

\* The writes of the two limits in a log, in order, as <<knob, value>>.
LimitWrites(l) ==
    LET w == SelectSeq(l, LAMBDA e : e.knob \in {"set_limit", "set_memswap_limit"})
    IN [i \in 1..Len(w) |-> <<w[i].knob, w[i].val>>]

AllOk(l) == \A i \in 1..Len(l) : l[i].res = "ok"

IsPrefix(a, b) == Len(a) <= Len(b) /\ \A i \in 1..Len(a) : a[i] = b[i]

\* The order the cgroup v1 rule gives for a request (limit, swap), 0 standing
\* for absent, when memory.limit_in_bytes reads limit_actual.
V1Order(limit, swap, limit_actual) ==
    LET swap_limit == IF limit = -1 /\ swap = 0 THEN -1 ELSE swap
        lim == IF limit # 0 THEN <<(<<"set_limit", limit>>)>> ELSE <<>>
        msw == IF swap_limit # 0 THEN <<(<<"set_memswap_limit", swap_limit>>)>> ELSE <<>>
    IN IF limit # 0 /\ swap_limit # 0 /\ (swap_limit = -1 \/ limit_actual < swap_limit)
       THEN msw \o lim
       ELSE lim \o msw

\* C4: on cgroup v1 the two memory limits are written in the order of the
\* rule: memsw first, then limit, when both are non-zero and swap is -1 or the
\* limit read from the kernel is below swap; otherwise limit first, then
\* memsw; a zero value is never written; with a current limit of 1 GiB and a
\* request of 512 MiB for both, limit is written first.
C4_V1WriteOrder ==
    [][(Calls("set") /\ is_some(call'.arg.memory) /\ ~v2 /\ "memory" \in ctrls) =>
        LET m == call'.arg.memory[1]
            limit == unwrap_or(m.limit, 0)
            swap == unwrap_or(m.swap, 0)
            limit_actual == memory_stat(Context("none", {}), RunState).limit_in_bytes
            expected == V1Order(limit, swap, limit_actual)
            actual == LimitWrites(log')
        IN  /\ IsPrefix(actual, expected)
            /\ AllOk(log') => actual = expected
            /\ \A i \in 1..Len(actual) : actual[i][2] # 0
            /\ (limit_actual = MEMORY_1G /\ limit = MEMORY_512M /\ swap = MEMORY_512M)
                  => (actual # <<>> /\ actual[1] = <<"set_limit", MEMORY_512M>>)]_vars

C4_Witness ==
    /\ MemoryReturned /\ ~v2 /\ exists /\ ret = "Ok"
    /\ MemoryArg.limit = Some(MEMORY_512M) /\ MemoryArg.swap = Some(MEMORY_512M)
    /\ LimitWrites(log) = << <<"set_limit", MEMORY_512M>>, <<"set_memswap_limit", MEMORY_512M>> >>
    /\ kmem = [limit |-> MEMORY_512M, memsw |-> MEMORY_512M]

\* C5: on cgroup v1, where the kernel keeps limit <= memsw, a request with
\* 0 < limit <= swap, or with 0 < limit and swap = -1, has neither of its two
\* writes rejected by the kernel rule, and limit <= memsw holds afterwards;
\* when no write fails for another reason both values are in place.
C5_V1OrderNeverRejected ==
    (/\ MemoryReturned /\ ~v2
     /\ is_some(MemoryArg.limit) /\ MemoryArg.limit[1] > 0
     /\ is_some(MemoryArg.swap)
     /\ (MemoryArg.swap[1] = -1 \/ MemoryArg.limit[1] <= MemoryArg.swap[1]))
        => /\ \A i \in 1..Len(log) : log[i].res # "rule"
           /\ kmem.limit <= kmem.memsw
           /\ (exists /\ AllOk(log)) =>
                 kmem = [limit |-> MemoryArg.limit[1], memsw |-> Stored(MemoryArg.swap[1])]

C5_Witness ==
    /\ MemoryReturned /\ ~v2 /\ exists /\ ret = "Ok"
    /\ MemoryArg.limit = Some(MEMORY_1G) /\ MemoryArg.swap = Some(MEMORY_1G)
    /\ LimitWrites(log) = << <<"set_memswap_limit", MEMORY_1G>>, <<"set_limit", MEMORY_1G>> >>
    /\ kmem = [limit |-> MEMORY_1G, memsw |-> MEMORY_1G]

\* The memory usage the setter reads during the call that has returned.
UsageRead == memory_stat(Context("none", {}), RunState).usage_in_bytes

\* A limit of the request is present, positive and not above the usage.
AtOrBelowUsage(o) == is_some(o) /\ o[1] > 0 /\ o[1] <= UsageRead

\* No memory knob was written during the call.
NoMemoryWrite == \A i \in 1..Len(log) : log[i].ctrl # "memory"

\* C7 as stated: on cgroup v2 with the memory controller available, a memory
\* section with swap > 0 and swap <= usage, or limit > 0 and limit <= usage,
\* or swap < limit, is rejected with InvalidLinuxResource and no memory knob
\* is written (checked on a cgroup that exists).
C7_V2RejectsSwapBelowLimit ==
    (/\ MemoryReturned /\ v2 /\ exists
     /\ \/ AtOrBelowUsage(MemoryArg.swap)
        \/ AtOrBelowUsage(MemoryArg.limit)
        \/ /\ is_some(MemoryArg.swap) /\ is_some(MemoryArg.limit)
           /\ MemoryArg.swap[1] < MemoryArg.limit[1])
        => (ret = "InvalidLinuxResource" /\ NoMemoryWrite)

\* C7 amended: on cgroup v2 with the memory controller available, a memory
\* section with swap > 0 and swap <= usage, or limit > 0 and limit <= usage,
\* or 0 < swap < limit, is rejected with InvalidLinuxResource and no memory
\* knob is written.
C7_V2RejectsPositiveSwapBelowLimit ==
    (/\ MemoryReturned /\ v2
     /\ \/ AtOrBelowUsage(MemoryArg.swap)
        \/ AtOrBelowUsage(MemoryArg.limit)
        \/ /\ is_some(MemoryArg.swap) /\ is_some(MemoryArg.limit)
           /\ 0 < MemoryArg.swap[1] /\ MemoryArg.swap[1] < MemoryArg.limit[1])
        => (ret = "InvalidLinuxResource" /\ NoMemoryWrite)

C7_Witness ==
    /\ MemoryReturned /\ v2 /\ exists /\ UsageRead = 0
    /\ MemoryArg.limit = Some(MEMORY_1G) /\ MemoryArg.swap = Some(MEMORY_512M)
    /\ ret = "InvalidLinuxResource" /\ log = <<>>

\* The positions in the log of the calls of a gateway operation.
Positions(knob) == {i \in 1..Len(log) : log[i].knob = knob}

\* C8: on cgroup v2 a memory section that passes validation has the converted
\* swap value written first, then the limit, then the reservation; a
\* reservation that is supplied is written whatever limit and swap are
\* (present, absent or -1) (checked on a cgroup that exists).
C8_V2ReservationWritten ==
    (MemoryReturned /\ v2 /\ exists /\ ret = "Ok" /\ is_some(MemoryArg.reservation))
        => /\ \E i \in 1..Len(log) :
                 log[i].knob = "set_soft_limit" /\ log[i].val = MemoryArg.reservation[1]
           /\ \A s \in Positions("set_memswap_limit"), l \in Positions("set_limit") : s < l
           /\ \A l \in Positions("set_limit"), r \in Positions("set_soft_limit") : l < r

\* C29: on cgroup v2 set() with a memory limit above 0 and no swap value
\* writes nothing to the swap limit: the calls of the memory setter are
\* set_limit and, for a supplied reservation, set_soft_limit, and the swap
\* limit of the cgroup stays as it was.
C29_SwapLimitUntouched ==
    [][(Calls("set") /\ backend = "fs" /\ v2 /\ exists
            /\ is_some(call'.arg.memory)
            /\ unwrap_or(call'.arg.memory[1].limit, 0) > 0
            /\ is_none(call'.arg.memory[1].swap))
        => /\ \A i \in 1..Len(log') :
                 log'[i].ctrl = "memory" => log'[i].knob \in {"set_limit", "set_soft_limit"}
           /\ kmem'.memsw = kmem.memsw]_vars

\* C9 as stated: with the memory controller available, on v1 and on v2, a
\* swappiness above 100 makes set() fail with InvalidLinuxResource, and a
\* swappiness in [0, 100] is accepted and written (checked on a cgroup that
\* exists, for calls in which no write failed).
C9_SwappinessChecked ==
    (MemoryReturned /\ exists /\ AllOk(log) /\ is_some(MemoryArg.swappiness))
        => IF MemoryArg.swappiness[1] > 100
           THEN ret = "InvalidLinuxResource"
           ELSE ret = "Ok" =>
                   \E i \in 1..Len(log) :
                       log[i].knob = "set_swappiness" /\ log[i].val = MemoryArg.swappiness[1]

\* C9 amended: on cgroup v1 with the memory controller available, a
\* swappiness above 100 is never written and makes set() fail, with
\* InvalidLinuxResource unless an earlier write of the call failed; a
\* swappiness in [0, 100] is the last write of a set() that returns Ok.  On
\* cgroup v2 no swappiness is written or checked: a section with nothing but
\* a swappiness above 100 returns Ok.
C9_SwappinessCheckedOnV1 ==
    (MemoryReturned /\ is_some(MemoryArg.swappiness))
        => IF v2
           THEN /\ Positions("set_swappiness") = {}
                /\ (is_none(MemoryArg.limit) /\ is_none(MemoryArg.swap)) => ret = "Ok"
           ELSE IF MemoryArg.swappiness[1] > 100
           THEN /\ Positions("set_swappiness") = {}
                /\ ret # "Ok"
                /\ AllOk(log) => ret = "InvalidLinuxResource"
           ELSE ret = "Ok" =>
                   /\ log # <<>>
                   /\ log[Len(log)].knob = "set_swappiness"
                   /\ log[Len(log)].val = MemoryArg.swappiness[1]
                   /\ log[Len(log)].res = "ok"

C9_Witness ==
    /\ MemoryReturned /\ ~v2 /\ exists
    /\ MemoryArg.swappiness = Some(101)
    /\ MemoryArg.limit = Some(MEMORY_512M)
    /\ ret = "InvalidLinuxResource"
    /\ kmem.limit = MEMORY_512M
\* The operations of the manager that never create the cgroup directory.
NonCreating == {"set", "stats", "pids", "freeze", "cgroup_path", "destroy"}

\* C11: cgroup creation is lazy.  FsManager::new creates no directory; set,
\* stats, pids, freeze, cgroup_path and destroy never create it (called on a
\* cgroup that does not exist they leave it so and make no create call);
\* add_proc on a cgroup that does not exist creates it first and then writes
\* the pid; add_proc on a cgroup that exists makes no create call.
C11_LazyCreation ==
    /\ (backend = "fs" => ~exists)
    /\ [][backend = "fs" =>
            /\ (pc = "ready" /\ pc' = "returned" /\ call'.name \in NonCreating)
                  => (~Called(log', "create") /\ (~exists => ~exists'))
            /\ (Calls("add_proc") /\ ~exists) =>
                  /\ log'[1].knob = "create"
                  /\ \A i \in 2..Len(log') : log'[i].knob = "add_task_by_tgid"
                  /\ ret' = "Ok" => (Len(log') = 2 /\ exists' /\ call'.arg \in members')
            /\ (Calls("add_proc") /\ exists) =>
                  /\ Len(log') = 1 /\ log'[1].knob = "add_task_by_tgid"
                  /\ exists']_vars

\* A second add_proc has returned Ok: it made no create call.
C11_Witness ==
    /\ FsReturned("add_proc") /\ ret = "Ok"
    /\ Cardinality(members) = 2
    /\ Len(log) = 1 /\ log[1].knob = "add_task_by_tgid"

\* enable_cpus_topdown with a cpu list that is not empty has returned.
TopdownReturned == FsReturned("enable_cpus_topdown") /\ call.arg # ""

\* The levels (path components below the root) of the cgroups whose
\* cpuset.cpus the call wrote, in the order of the writes.
RECURSIVE CpusWrites(_)
CpusWrites(l) ==
    IF l = <<>> THEN <<>>
    ELSE (IF Head(l).knob = "set_cpus" THEN <<Head(l).level>> ELSE <<>>) \o CpusWrites(Tail(l))

C13_TopDown ==
    [][(Calls("enable_cpus_topdown") /\ backend = "fs") =>
        LET w == CpusWrites(log')
        IN  /\ \A i, j \in 1..Len(w) : i < j => w[i] < w[j]
            /\ \A i \in 1..Len(log') :
                  log'[i].res # "ok" =>
                    /\ i = Len(log')
                    /\ ret' # "Ok"
                    /\ \A l \in log'[i].level..Len(anc) : anc'[l] = anc[l]
                    /\ kcpus' = kcpus]_vars

\* The write to root/x/y failed after root/x was written: root/x/y/z was not
\* written.
C13_Witness ==
    /\ TopdownReturned /\ ret # "Ok"
    /\ Len(anc) = 2
    /\ CpusWrites(log) = <<1, 2>>
    /\ log[Len(log)].knob = "set_cpus" /\ log[Len(log)].res = "error"
    /\ anc[1] = parse_cpu_list(call.arg) /\ anc[2] # anc[1]

SystemdReturned(name) == Returned(name) /\ backend = "systemd"

\* This step is the call `name` of the systemd backend.
SystemdCalls(name) == Calls(name) /\ backend = "systemd"

\* The D-Bus calls of the method in a list of calls, in order.
RECURSIVE MethodCalls(_, _)
MethodCalls(l, method) ==
    IF l = <<>> THEN <<>>
    ELSE (IF Head(l).method = method THEN <<Head(l)>> ELSE <<>>) \o MethodCalls(Tail(l), method)

\* C15 as stated: add_proc(pid) of the systemd backend on a unit that does
\* not exist issues StartTransientUnit with a PIDs array that holds exactly
\* pid, ensures the directory exists and issues no AttachProcessesToUnit; on
\* a unit that exists it issues AttachProcessesToUnit with [pid] and no
\* StartTransientUnit; after any sequence of add_proc, set and destroy.
C15_StartCarriesThePid ==
    [][SystemdCalls("add_proc") =>
        LET starts == MethodCalls(dbus', "StartTransientUnit")
            attaches == MethodCalls(dbus', "AttachProcessesToUnit")
        IN IF unit = "absent"
           THEN /\ attaches = <<>>
                /\ \A i \in 1..Len(starts) : PidsProp(starts[i].arg) = <<call'.arg>>
                /\ ret' = "Ok" => (Len(starts) = 1 /\ exists')
           ELSE /\ starts = <<>>
                /\ \A i \in 1..Len(attaches) : attaches[i].arg = <<call'.arg>>
                /\ ret' = "Ok" => Len(attaches) = 1]_vars

\* The translation of the document of the call that has just returned.
Translated == translate(SystemdContext("none", "collected"), call.arg)

Kept(name) == is_some(prop_value(props, name))

\* C18 as stated: on the systemd backend a cpu list or a memory node list
\* with a systemd older than CPUSET_SYSTEMD_VERSION, and a cpu period with a
\* systemd older than CPU_SYSTEMD_VERSION, make set() fail with
\* ObsoleteSystemd without producing the property; with a systemd that is
\* new enough the property is produced.
C18_ObsoleteSystemd ==
    (SystemdReturned("set") /\ is_some(call.arg.cpu) /\ ret # "SystemdDbus") =>
        LET cpu == call.arg.cpu[1]
            period == unwrap_or(cpu.period, 0)
        IN  /\ (is_some(cpu.cpus) /\ version < CPUSET_SYSTEMD_VERSION) =>
                  (ret = "ObsoleteSystemd" /\ ~Kept("AllowedCPUs"))
            /\ (is_some(cpu.mems) /\ version < CPUSET_SYSTEMD_VERSION) =>
                  (ret = "ObsoleteSystemd" /\ ~Kept("AllowedMemoryNodes"))
            /\ (period # 0 /\ version < CPU_SYSTEMD_VERSION) =>
                  (ret = "ObsoleteSystemd" /\ ~Kept("CPUQuotaPeriodUSec"))
            /\ version >= CPUSET_SYSTEMD_VERSION =>
                  /\ ret = "Ok"
                  /\ is_some(cpu.cpus) => Kept("AllowedCPUs")
                  /\ is_some(cpu.mems) => Kept("AllowedMemoryNodes")
                  /\ period # 0 => Kept("CPUQuotaPeriodUSec")

\* C19 as stated: on the systemd backend CPUQuotaPerSecUSec is produced iff
\* the period or the quota is not 0; for a quota of 0 or less its value is
\* u64::MAX; for a quota above 0 its value V, with the period 100000 when
\* none is given, is a multiple of 10000 with
\* V * period >= quota * 1000000 > (V - 10000) * period.  (With V = 10000 * m
\* the two inequalities are m * period >= 100 * quota > (m - 1) * period.)
C19_QuotaRoundedUp ==
    [][(SystemdCalls("set") /\ ret' = "Ok" /\ is_some(call'.arg.cpu)) =>
        LET cpu == call'.arg.cpu[1]
            quota == unwrap_or(cpu.quota, 0)
            period == IF unwrap_or(cpu.period, 0) = 0
                      THEN DEFAULT_CPU_QUOTA_PERIOD
                      ELSE unwrap_or(cpu.period, 0)
            kept == prop_value(props', "CPUQuotaPerSecUSec")
            V == kept[1][1]
            m == V \div 10000
        IN  IF unwrap_or(cpu.period, 0) # 0 \/ quota # 0
            THEN /\ is_some(kept)
                 /\ unit # "absent" => prop_value(dbus'[1].arg, "CPUQuotaPerSecUSec") = kept
                 /\ quota <= 0 => V = U64_MAX
                 /\ quota > 0 =>
                       /\ V % 10000 = 0
                       /\ m * period >= 100 * quota
                       /\ (m - 1) * period < 100 * quota
            ELSE /\ kept = prop_value(props, "CPUQuotaPerSecUSec")
                 /\ unit # "absent" => is_none(prop_value(dbus'[1].arg, "CPUQuotaPerSecUSec"))]_vars

\* The gateway call knob was made with the value val and succeeded.
Wrote(knob, val) ==
    \E i \in 1..Len(log) : log[i].knob = knob /\ log[i].val = val /\ log[i].res = "ok"

\* set() with a cpu section has returned on cgroup v2 with the cpu
\* controller.
CpuSetReturnedV2 ==
    FsReturned("set") /\ v2 /\ "cpu" \in ctrls /\ is_some(call.arg.cpu)

\* C20 as stated: on the cgroupfs backend with cgroup v2, set() with
\* cpu{shares = 1024, quota = 100000, period = 100000} writes the weight 40
\* and the quota and period 100000.
C20_Weight40 ==
    (CpuSetReturnedV2 /\ ret = "Ok" /\ call.arg.cpu = Some(CpuDefault)) =>
        /\ Wrote("set_shares", 40)
        /\ Wrote("set_cfs_quota", 100000)
        /\ Wrote("set_cfs_period", 100000)

\* C20 amended: on the cgroupfs backend with cgroup v2 the weight written is
\* cpu_shares_to_cgroup_v2(shares), which is 39 for shares = 1024; a weight
\* of 0 is not written; set() with
\* cpu{shares = 1024, quota = 100000, period = 100000} that returns Ok has
\* written the weight 39 and the quota and period 100000.
C20_Weight39 ==
    CpuSetReturnedV2 =>
        LET cpu == call.arg.cpu[1]
        IN  /\ \A i \in 1..Len(log) :
                  log[i].knob = "set_shares" =>
                    /\ is_some(cpu.shares)
                    /\ log[i].val = cpu_shares_to_cgroup_v2(cpu.shares[1])
                    /\ log[i].val # 0
                    /\ cpu.shares = Some(1024) => log[i].val = 39
            /\ (ret = "Ok" /\ is_some(cpu.shares) /\ cpu.shares # Some(0))
                  => Called(log, "set_shares")
            /\ (ret = "Ok" /\ call.arg.cpu = Some(CpuDefault)) =>
                  /\ Wrote("set_shares", 39)
                  /\ Wrote("set_cfs_quota", 100000)
                  /\ Wrote("set_cfs_period", 100000)

C20_Witness ==
    /\ CpuSetReturnedV2 /\ ret = "Ok"
    /\ call.arg.cpu = Some(CpuDefault)
    /\ Wrote("set_shares", 39)
    /\ Wrote("set_cfs_quota", 100000)

\* ------------------------------------------------------------------------
\* Conversion layer
\* ------------------------------------------------------------------------

AppliedTo(fn) == pc = "returned" /\ call.name = fn

\* The product a * b of two numbers as <<high, low>>, low below 10000 (the
\* product is high * 10000 + low), for b up to 10000 and a below 2^18.
Product(a, b) ==
    LET low == (a % 10000) * b
    IN  <<(a \div 10000) * b + low \div 10000, low % 10000>>

WideLe(x, y) == x[1] < y[1] \/ (x[1] = y[1] /\ x[2] <= y[2])

\* C21: for every shares value s, f = cpu_shares_to_cgroup_v2 gives f(0) = 0,
\* f(s) in [1, 10000] for s >= 1, f(s) = 1 for s = 1 and s = 2,
\* f(s) = 10000 for every s >= 262144 (u64::MAX included), f(262143) = 9999,
\* otherwise (s - 2) * 9999 div 262142 + 1; and f is monotone: no smaller
\* shares value has a larger weight.
C21_SharesToWeight ==
    AppliedTo("cpu_shares_to_cgroup_v2") =>
        LET s == call.arg[1]
        IN  /\ ret = "Ok"
            /\ (s = 0) => (out = 0)
            /\ (s # 0) => (out >= 1 /\ out <= 10000)
            /\ (s \in {1, 2}) => (out = 1)
            /\ u64_le(262144, s) => (out = 10000)
            /\ (s = 262143) => (out = 9999)
            /\ (s > 2 /\ s < 262144) =>
                   \* out - 1 = (s - 2) * 9999 div 262142
                   \E q \in {out - 1} :
                       /\ q >= 0
                       /\ WideLe(Product(262142, q), Product(s - 2, 9999))
                       /\ ~WideLe(Product(262142, q + 1), Product(s - 2, 9999))
            /\ \A t \in SharesValues :
                   u64_le(t, s) => cpu_shares_to_cgroup_v2(t) <= out

\* C21: the conversion has been applied to 214800 shares, where
\* (s - 2) * 9999 is above 2^31: the weight is 8194.
C21_Witness ==
    /\ AppliedTo("cpu_shares_to_cgroup_v2")
    /\ call.arg[1] = 214800
    /\ out = 8194

\* C22: for every pair (memswap, mem), memory_swap_to_cgroup_v2 gives -1 for
\* mem = -1 and memswap = 0; else memswap for memswap -1 or 0; else memswap
\* for mem = -1; else InvalidLinuxResource for mem = 0, for mem < 0 and for
\* memswap < mem; else memswap - mem.  When it succeeds with both inputs
\* positive, result + mem = memswap and result >= 0.
C22_MemorySwapRules ==
    AppliedTo("memory_swap_to_cgroup_v2") =>
        LET memswap == call.arg[1]
            mem == call.arg[2]
            unset == memswap \in {-1, 0}
            Is(v) == ret = "Ok" /\ out = v
            Invalid == ret = "InvalidLinuxResource"
        IN  /\ (mem = -1 /\ memswap = 0) => Is(-1)
            /\ (unset /\ ~(mem = -1 /\ memswap = 0)) => Is(memswap)
            /\ (~unset /\ mem = -1) => Is(memswap)
            /\ (~unset /\ mem = 0) => Invalid
            /\ (~unset /\ mem < -1) => Invalid
            /\ (~unset /\ mem > 0 /\ memswap < mem) => Invalid
            /\ (~unset /\ mem > 0 /\ memswap >= mem) => Is(memswap - mem)
            /\ (ret = "Ok" /\ memswap > 0 /\ mem > 0) =>
                   (out + mem = memswap /\ out >= 0)

\* C22: the conversion has succeeded with both inputs positive and a swap
\* part that is not zero (1 GiB of memory+swap with 512 MiB of memory).
C22_Witness ==
    /\ AppliedTo("memory_swap_to_cgroup_v2")
    /\ call.arg = <<MEMORY_1G, MEMORY_512M>>
    /\ ret = "Ok"
    /\ out = MEMORY_512M

\* ------------------------------------------------------------------------
\* Path algebra
\* ------------------------------------------------------------------------

\* The parts joined by the separator.
RECURSIVE Joined(_, _)
Joined(parts, sep) ==
    IF Len(parts) = 0 THEN <<>>
    ELSE IF Len(parts) = 1 THEN parts[1]
    ELSE parts[1] \o <<sep>> \o Joined(Tail(parts), sep)

\* A slice name without its last six characters.
NameOf(slice) == SubSeq(slice, 1, Len(slice) - Len(SLICE_SUFFIX))

\* The tokens t1, ..., tn of a slice name t1-...-tn.slice.
TokensOf(slice) == split(NameOf(slice), "-")

\* The path t1.slice/t1-t2.slice/.../t1-...-tn.slice.
Expansion(tokens) ==
    Joined([k \in 1..Len(tokens) |-> Joined(SubSeq(tokens, 1, k), "-") \o SLICE_SUFFIX], "/")

RootSlice == <<"-">> \o SLICE_SUFFIX

\* C23: expand_slice(s) fails with InvalidArgument when s does not end in
\* ".slice", when s is ".slice", when s contains "/", or when a token of the
\* name between hyphens is empty; it returns "" for "-.slice"; otherwise, for
\* the name t1-...-tn, it returns t1.slice/t1-t2.slice/.../t1-...-tn.slice.
C23_ExpandSlice ==
    AppliedTo("expand_slice") =>
        LET slice == call.arg[1]
        IN  IF \/ ~ends_with(slice, SLICE_SUFFIX)
               \/ slice = SLICE_SUFFIX
               \/ contains(slice, "/")
            THEN ret = "InvalidArgument"
            ELSE IF slice = RootSlice THEN ret = "Ok" /\ out = <<>>
            ELSE IF \E i \in 1..Len(TokensOf(slice)) : TokensOf(slice)[i] = <<>>
            THEN ret = "InvalidArgument"
            ELSE ret = "Ok" /\ out = Expansion(TokensOf(slice))

IsIndex(token) == token # <<>> /\ \A i \in 1..Len(token) : Digit(token[i]) >= 0

\* The number an index stands for.
RECURSIVE IndexOf(_)
IndexOf(token) ==
    IF Len(token) = 1 THEN Digit(token[1])
    ELSE 10 * IndexOf(SubSeq(token, 1, Len(token) - 1)) + Digit(token[Len(token)])

\* The tokens of the parts of a list: for each part between commas, what
\* stands between its hyphens.
PartsOf(list) == [i \in 1..Len(split(list, ",")) |-> split(split(list, ",")[i], "-")]

\* A valid list: each part is an index or a range a-b of two indices, a <= b.
ValidList(list) ==
    \A i \in 1..Len(PartsOf(list)) :
        LET part == PartsOf(list)[i]
        IN  /\ Len(part) \in {1, 2}
            /\ \A k \in 1..Len(part) : IsIndex(part[k])
            /\ Len(part) = 2 => IndexOf(part[1]) <= IndexOf(part[2])

\* The indices of a valid list.
IndicesOf(list) ==
    UNION {IndexOf(PartsOf(list)[i][1])..IndexOf(PartsOf(list)[i][Len(PartsOf(list)[i])]) :
              i \in 1..Len(PartsOf(list))}

Largest(S) == CHOOSE x \in S : \A y \in S : y <= x

\* Bit j of a byte, counted from the least significant bit, is set.
BitSet(byte, j) == (byte \div 2^j) % 2 = 1

\* C25: for every valid list L, convert_list_to_mask(L) returns a byte array
\* M of length (largest index div 8) + 1 such that for every index i, i is
\* in L iff bit (i mod 8) of the byte M[len - 1 - (i div 8)] (the first byte
\* being M[0]) is set; "0-4,9" gives [0b00000010, 0b00011111].
C25_MaskOfValidList ==
    (AppliedTo("convert_list_to_mask") /\ ValidList(call.arg[1])) =>
        LET L == IndicesOf(call.arg[1])
        IN  /\ ret = "Ok"
            /\ Len(out) = Largest(L) \div 8 + 1
            /\ \A k \in 1..Len(out) : out[k] \in 0..255
            /\ \A i \in 0..(8 * Len(out) - 1) :
                   (i \in L) <=> BitSet(out[Len(out) - i \div 8], i % 8)
            /\ (call.arg[1] = <<"0", "-", "4", ",", "9">>) => (out = <<2, 31>>)

\* C25: the list "0-4,9" has been converted.
C25_Witness ==
    /\ AppliedTo("convert_list_to_mask")
    /\ call.arg[1] = <<"0", "-", "4", ",", "9">>
    /\ ret = "Ok"
    /\ Len(out) = 2

\* A list has an invalid token: a part with three or more tokens, an empty
\* token, or a token with a character that is not a digit.
InvalidList(list) ==
    \E i \in 1..Len(PartsOf(list)) :
        \/ Len(PartsOf(list)[i]) >= 3
        \/ \E k \in 1..Len(PartsOf(list)[i]) : ~IsIndex(PartsOf(list)[i][k])

RemovalAttempt == pc = "draining" /\ pc' = "returned"

\* The answer of the kernel to the last gateway call of a log.
LastAnswer(l) == l[Len(l)].res

\* The pids whose move out of the cgroup the kernel refused.
FailedMoves(l) ==
    {l[i].val : i \in {j \in 1..Len(l) :
                          /\ l[j].knob \in {"remove_task", "remove_task_by_tgid"}
                          /\ l[j].res # "ok"}}

\* C27 as stated: whenever destroy() attempts the directory removal the
\* cgroup has no member and the removal does not fail with EBUSY, also when
\* a second manager adds a process, a member forks, or a drain move fails.
C27_NoMemberAtRemoval ==
    [][RemovalAttempt => (members = {} /\ LastAnswer(log') # "ebusy")]_vars

\* C27: when destroy() attempts the directory removal, every member the
\* cgroup has is a process whose move failed or a process that joined after
\* destroy() read the member list; with no failed move and no such process
\* the cgroup has no member.  The removal is attempted in either case: it
\* fails with EBUSY exactly when the cgroup has a member, and destroy() then
\* returns the error and leaves the directory and its members.
C27_MembersAtRemoval ==
    [][RemovalAttempt =>
        /\ members \subseteq (FailedMoves(log) \cup draining.joined)
        /\ (FailedMoves(log) = {} /\ draining.joined = {}) => members = {}
        /\ log' # <<>> /\ log'[Len(log')].knob = "delete"
        /\ (LastAnswer(log') = "ebusy") <=> (members # {})
        /\ (members # {}) => (ret' # "Ok" /\ exists' /\ members' = members)
        /\ (ret' = "Ok") => (~exists' /\ members' = {})]_vars

\* C27: a destroy() whose moves all succeeded has failed with EBUSY because
\* a process joined the cgroup after the member list was read.
C27_Witness ==
    /\ FsReturned("destroy")
    /\ ret # "Ok"
    /\ LastAnswer(log) = "ebusy"
    /\ Len(log) >= 2
    /\ FailedMoves(log) = {}
    /\ draining.joined # {}

\* ------------------------------------------------------------------------
\* The properties a SystemdClient keeps
\* ------------------------------------------------------------------------

\* The names of a property list.
Names(properties) == {properties[i].name : i \in 1..Len(properties)}

\* How often a name occurs in a property list.
Count(properties, name) ==
    Cardinality({i \in 1..Len(properties) : properties[i].name = name})

\* The value a property list gives a name last.
LastSet(properties, name) ==
    properties[CHOOSE i \in 1..Len(properties) :
                   /\ properties[i].name = name
                   /\ \A j \in (i + 1)..Len(properties) : properties[j].name # name].value

\* The property `name` is the same, as often, in both lists.
SameProperty(before, after, name) ==
    /\ Count(after, name) = Count(before, name)
    /\ prop_value(after, name) = prop_value(before, name)

\* C28: set_properties on a unit that does not exist sends nothing over
\* D-Bus and returns Ok; afterwards the client holds each name of the call
\* once, with the value the call gave it last, and every other property as
\* before.  No other operation changes a property but PIDs, and
\* StartTransientUnit carries the properties the client holds: for each name
\* the value set most recently, a default property overridden and not
\* duplicated.
C28_PropertiesRemembered ==
    [][/\ (SystemdCalls("set_properties") /\ unit = "absent") =>
              /\ dbus' = <<>>
              /\ ret' = "Ok"
              /\ Names(props') = Names(props) \cup Names(call'.arg)
              /\ \A n \in Names(call'.arg) :
                     /\ Count(props', n) = 1
                     /\ prop_value(props', n) = Some(LastSet(call'.arg, n))
              /\ \A n \in Names(props) \ Names(call'.arg) : SameProperty(props, props', n)
       /\ SystemdCalls("set_pid_prop") =>
              \A n \in Names(props) \ {"PIDs"} : SameProperty(props, props', n)
       /\ SystemdCalls("stop") => props' = props
       /\ SystemdCalls("start") =>
              /\ props' = props
              /\ \A i \in 1..Len(dbus') :
                     dbus'[i].method = "StartTransientUnit" => dbus'[i].arg = props]_vars

\* C28: a unit has been started with the description and the CPU weight
\* that were set while it did not exist: StartTransientUnit carries one
\* Description, the overriding one, and one CPUWeight, the later one.
C28_Witness ==
    /\ SystemdReturned("start")
    /\ ret = "Ok"
    /\ Len(dbus) = 1
    /\ dbus[1].method = "StartTransientUnit"
    /\ Count(dbus[1].arg, "Description") = 1
    /\ prop_value(dbus[1].arg, "Description") = Some(<<"kata-container1 description">>)
    /\ Count(dbus[1].arg, "CPUWeight") = 1
    /\ prop_value(dbus[1].arg, "CPUWeight") = Some(<<200>>)
    /\ Len(dbus[1].arg) = Len(default_cgroup) + 2

\* C30: the property list a SystemdClient holds never has a name twice,
\* after any sequence of set_pid_prop and set_properties calls, a
\* set_properties call that names a property twice included.
C30_NoDuplicateName ==
    backend = "systemd" => \A n \in Names(props) : Count(props, n) = 1

\* C30: set_properties has been given a list that names Description twice,
\* after two pids were added: the client holds one Description and one PIDs
\* property with both pids.
C30_Witness ==
    /\ SystemdReturned("set_properties")
    /\ Count(call.arg, "Description") = 2
    /\ Count(props, "Description") = 1
    /\ Count(props, "PIDs") = 1
    /\ Len(PidsProp(props)) = 2
    /\ Count(props, "MemoryMax") = 1

====
